---------------------------- MODULE Spec2Model ----------------------------
(***************************************************************************)
(* Verification model of the bigswitch/deployment-support scripts.         *)
(*                                                                         *)
(*  SpecCS  the CloudStack phase orchestrator, cloudstack/big_patch.py:    *)
(*          deploy_to_all, the seven worker functions and the two          *)
(*          management threads.                                            *)
(*  SpecTC  the OpenStack command runner, openstack/big_patch.py:          *)
(*          TimedCommand.run with its worker thread.                       *)
(*  SpecOS  the OpenStack fan-out, openstack/big_patch.py:                 *)
(*          ConfigDeployer.deploy_to_all / deploy_to_node_catch_errors.    *)
(*  SpecMain the OpenStack main block, openstack/big_patch.py: argument    *)
(*          checks, the environment constructors and the first steps of    *)
(*          deploy_to_node.                                                *)
(*  SpecGen the CloudStack script generator, cloudstack/big_patch.py:      *)
(*          generate_command_for_node called again and again for one node. *)
(*  SpecRL  the CloudStack command runner, cloudstack/big_patch.py:        *)
(*          run_command_on_local with its reader and watcher threads, and  *)
(*          safe_print.                                                    *)
(*  SpecPP  the OpenStack puppet step, openstack/big_patch.py: the error   *)
(*          handling of deploy_to_node after 'puppet apply'.               *)
(*  SpecND  the bcf3 node record, bcf3/lib/node.py: Node.__init__ and      *)
(*          Node.is_ready_to_deploy.                                       *)
(*                                                                         *)
(* Each specification moves only its own group of variables; the other     *)
(* groups keep the values their own Init gives them.                       *)
(***************************************************************************)
EXTENDS Integers, Sequences, FiniteSets, TLC

(***************************************************************************)
(* Bounds of the model.                                                    *)
(***************************************************************************)
\* longest config['nodes'] list explored
MaxNodes == 3
\* most retries a TimedCommand.run call is given
MaxRetries == 2
\* deploy threads ConfigDeployer.deploy_to_all keeps unjoined before it waits
\* for the oldest (the script's value is 20, line 26)
MAX_THREADS == 2
\* most things that go wrong in one run: an install package absent from the
\* control host, a command that fails, a command that cannot be spawned
MaxFaults == 1

\* calls of generate_command_for_node a behaviour of SpecGen follows
MaxCalls == 2

\* most lines a command writes to each of its two pipes
MaxLines == 1

\* most lines 'puppet apply' writes to stderr, or grep finds in its log
MaxErrLines == 2

(***************************************************************************)
(* CloudStack: constants of cloudstack/big_patch.py.                       *)
(***************************************************************************)
ROLE_MGMT == "management"
ROLE_COMPUTE == "compute"
MAX_WORKERS == 10

\* the documented values of config['compute_os'] and config['management_os']
ComputeOSes == {"ubuntu", "centos", "xenserver"}
MgmtOSes == {"ubuntu", "centos"}
\* xenserver pool names a config may use
Pools == {"p1", "p2"}

\* the install packages deploy_to_all copies to /tmp
Packages ==
  {"CS_COMMON", "CS_MGMT", "CS_AGENT",
   "CS_COMMON_RPM", "CS_MGMT_RPM", "CS_AGENT_RPM", "CS_AWSAPI_RPM"}

\* the seven queues, in the order deploy_to_all drains them
QueueOrder ==
  << "node_q", "xen_slave_node_q", "xen_master_node_q", "node_mgmtintf_q",
     "xen_master_node_reboot_q", "xen_slave_node_reboot_q", "xen_check_bond_q" >>

SeqRange(s) == {s[i] : i \in 1..Len(s)}

Queues == SeqRange(QueueOrder)

\* position of a queue in the drain order
StepOf(q) == CHOOSE i \in 1..Len(QueueOrder) : QueueOrder[i] = q

\* number of occurrences of x in sequence s
Occurrences(s, x) == Cardinality({i \in 1..Len(s) : s[i] = x})

VARIABLES
  \* ---- CloudStack (SpecCS) ----
  config,            \* the parsed YAML: compute_os, management_os, nodes
  hostPkgs,          \* install packages available on the control host
  tmpPkgs,           \* install packages present in /tmp
  tmpScripts,        \* generated scripts present in /tmp: << node, name >>
  pc,                \* position of deploy_to_all
  loopIdx,           \* index of the config entry the node loop is at
  step,              \* queue step the orchestrator is at (1..7)
  COMPUTE_OS,        \* module global
  MGMT_OS,           \* module global
  MANAGEMENT_NODE,   \* module global: 0 is None, else a node index
  MASTER_NODES,      \* module global: pool -> node index, 0 when absent
  queue,             \* queue -> nodes waiting in it (Queue.Queue contents)
  unfinished,        \* queue -> Queue.unfinished_tasks
  puts,              \* queue -> every node ever put, in order
  started,           \* queue -> worker threads started for it
  running,           \* queue -> node -> commands of that node in flight
  died,              \* queue -> workers ended by an exception
  postPrint,         \* check-bond workers in their closing safe_print
  began,             \* phase -> node -> times the phase action began
  ended,             \* phase -> node -> times the phase action returned
  mgmtThread,        \* management_node_thread: none, running, finished
  rebootThread,      \* worker_reboot_management thread
  surfaced,          \* <<phase, node, message>> printed about a failure
  faults             \* commands gone wrong so far

csVars ==
  << config, hostPkgs, tmpPkgs, tmpScripts, pc, loopIdx, step, COMPUTE_OS,
     MGMT_OS, MANAGEMENT_NODE, MASTER_NODES, queue, unfinished, puts, started,
     running, died, postPrint, began, ended, mgmtThread, rebootThread,
     surfaced, faults >>

VARIABLES
  \* ---- TimedCommand.run (SpecTC) ----
  tcShellArg,        \* shell argument of the call; the command is one string
                     \* when it is TRUE and an argument vector otherwise
  tcRetriesArg,      \* retries argument of the call
  tcPc,              \* position of the innermost run() invocation
  tcAttempt,         \* number of run() invocations so far (recursion depth)
  tcShell,           \* shell parameter of the innermost invocation
  selfRetries,       \* self.retries
  selfProcess,       \* self.process: 0 is None, else the attempt that set it
  selfResp,          \* self.resp
  selfErrors,        \* self.errors
  tcThread,          \* thread of the innermost invocation
  tcProc,            \* attempt -> state of the process it spawned
  tcSignalled,       \* attempts whose own process received terminate()
  tcTimeouts         \* invocations that found their thread alive

tcVars ==
  << tcShellArg, tcRetriesArg, tcPc, tcAttempt, tcShell, selfRetries,
     selfProcess, selfResp, selfErrors, tcThread, tcProc, tcSignalled,
     tcTimeouts >>

VARIABLES
  \* ---- ConfigDeployer.deploy_to_all (SpecOS) ----
  envNodes,          \* self.env.nodes: the nodes are 1..envNodes
  osPc,              \* position of deploy_to_all
  osIdx,             \* index of the node the start loop is at
  thread_list,       \* deque of started threads not yet popped
  osJoining,         \* thread being joined, 0 when none
  osThread,          \* node -> state of its deploy thread
  osRaised,          \* nodes whose deploy_to_node raised
  errors,            \* the shared error list: sequence of <<node, message>>
  node_information,  \* the shared list of <<node, connection string>>
  osPrinted          \* lines of the final summary

osVars ==
  << envNodes, osPc, osIdx, thread_list, osJoining, osThread, osRaised,
     errors, node_information, osPrinted >>

VARIABLES
  \* ---- openstack/big_patch.py __main__ (SpecMain) ----
  mnMode,            \* "fuel", "config" or "standalone"
  mnArgs,            \* command line values, each "ok" or "bad"
  mnN,               \* number of nodes of the environment
  mnConf,            \* node -> its bond and bridge settings
  mnPc,              \* position of the main block
  mnIdx,             \* node FuelEnvironment.__init__ is fetching
  mnNode,            \* node -> stage of its deploy_to_node
  mnTouched,         \* nodes a command was executed on
  mnError            \* message the run aborted with, "" when none

mainVars == << mnMode, mnArgs, mnN, mnConf, mnPc, mnIdx, mnNode, mnTouched,
               mnError >>

VARIABLES
  \* ---- cloudstack/big_patch.py generate_command_for_node (SpecGen) ----
  gnNode,            \* the node record every call is given
  gnComputeOs,       \* the global COMPUTE_OS at the next call
  gnMgmtOs,          \* the global MGMT_OS at the next call
  gnMaster,          \* MASTER_NODES[node.xenserver_pool]: "self" or "other"
  gnTmp,             \* the files of the node's host name present in /tmp
  gnCalls            \* what each call so far wrote, in call order

genVars == << gnNode, gnComputeOs, gnMgmtOs, gnMaster, gnTmp, gnCalls >>

VARIABLES
  \* ---- cloudstack/big_patch.py run_command_on_local (SpecRL) ----
  rlKind,            \* "stty": the call safe_print makes while it holds
                     \* print_lock; "script": a call that holds no lock
  rlSttyWrites,      \* whether 'stty sane' writes anything here
  rlLines,           \* pipe -> lines of the command not yet read
  rlPc,              \* position of run_command_on_local
  rlProc,            \* the child: none, running, exited, reaped
  rlEvent,           \* the threading.Event
  print_lock,        \* "free" or the thread that holds it
  rlReader,          \* pipe -> state of its read_output thread
  rlWatcher,         \* state of the kill_on_timeout thread
  rlTimedOutOn,      \* state of the child when event.wait timed out
  rlKilledOn         \* state of the child when proc.kill() was called

rlVars == << rlKind, rlSttyWrites, rlLines, rlPc, rlProc, rlEvent, print_lock,
             rlReader, rlWatcher, rlTimedOutOn, rlKilledOn >>

VARIABLES
  \* ---- openstack/big_patch.py deploy_to_node, puppet apply (SpecPP) ----
  ppStderr,          \* what 'puppet apply' wrote to stderr
  ppLog,             \* what grep 'Puppet (err):' finds in the remote log
  ppPc,              \* position in lines 753-775
  ppErrors           \* the local variable errors

ppVars == << ppStderr, ppLog, ppPc, ppErrors >>

VARIABLES
  \* ---- bcf3/lib/node.py Node (SpecND) ----
  ndDeployMode,      \* node_config['deploy_mode']
  ndOsKind,          \* the set node_config['os'] is in: "rpm", "deb", "other"
  ndPkgMap,          \* env.ivs_pkg_map: kind -> package name or "None"
  ndPc,              \* "config", "constructed", "answered"
  ivs_pkg,           \* self.ivs_pkg
  ndReady            \* what is_ready_to_deploy returned

ndVars == << ndDeployMode, ndOsKind, ndPkgMap, ndPc, ivs_pkg, ndReady >>

vars == << csVars, tcVars, osVars, mainVars, genVars, rlVars, ppVars,
           ndVars >>

notCS == << tcVars, osVars, mainVars, genVars, rlVars, ppVars,
             ndVars >>
notTC == << csVars, osVars, mainVars, genVars, rlVars, ppVars,
             ndVars >>
notOS == << csVars, tcVars, mainVars, genVars, rlVars, ppVars,
             ndVars >>
notMain == << csVars, tcVars, osVars, genVars, rlVars, ppVars,
               ndVars >>
notGen == << csVars, tcVars, osVars, mainVars, rlVars, ppVars,
              ndVars >>
notRL == << csVars, tcVars, osVars, mainVars, genVars, ppVars,
             ndVars >>
notPP == << csVars, tcVars, osVars, mainVars, genVars, rlVars,
            ndVars >>
notND == << csVars, tcVars, osVars, mainVars, genVars, rlVars, ppVars >>

NodeIds == 1..MaxNodes

\* the phases: the two management actions and the seven queues
Phases == {"setup_management", "reboot_management"} \cup Queues

NodeConfigs == [role : {ROLE_MGMT, ROLE_COMPUTE}, pool : Pools]

\* index of the first compute entry of a node list, 0 when there is none
FirstCompute(ns) ==
  IF \E i \in 1..Len(ns) : ns[i].role = ROLE_COMPUTE
  THEN CHOOSE i \in 1..Len(ns) :
         /\ ns[i].role = ROLE_COMPUTE
         /\ \A j \in 1..(i - 1) : ns[j].role # ROLE_COMPUTE
  ELSE 0

\* config['nodes'] lists up to MaxNodes entries.  Inputs that the script
\* cannot tell apart are listed once: the pool of an entry is read only
\* under xenserver and only for compute entries (Node.__init__, line 2310),
\* pool names are interchangeable (the first compute entry is in "p1"), and
\* management_os is read only when a management entry exists.
Configs ==
  { c \in [compute_os : ComputeOSes, management_os : MgmtOSes,
           nodes : UNION {[1..n -> NodeConfigs] : n \in 0..MaxNodes}] :
      /\ \A i \in 1..Len(c.nodes) :
           (c.compute_os # "xenserver" \/ c.nodes[i].role = ROLE_MGMT)
             => c.nodes[i].pool = "p1"
      /\ FirstCompute(c.nodes) # 0 => c.nodes[FirstCompute(c.nodes)].pool = "p1"
      /\ (\A i \in 1..Len(c.nodes) : c.nodes[i].role # ROLE_MGMT)
           => c.management_os = "ubuntu" }

PkgSets == {S \in SUBSET Packages : Cardinality(Packages \ S) <= MaxFaults}

ZeroCount == [n \in NodeIds |-> 0]

\* module state of cloudstack/big_patch.py right after import
StartCS ==
  /\ tmpPkgs = {}
  /\ tmpScripts = {}
  /\ pc = "prepare"
  /\ loopIdx = 1
  /\ step = 1
  /\ COMPUTE_OS = "ubuntu"
  /\ MGMT_OS = "ubuntu"
  /\ MANAGEMENT_NODE = 0
  /\ MASTER_NODES = [p \in Pools |-> 0]
  /\ queue = [q \in Queues |-> << >>]
  /\ unfinished = [q \in Queues |-> 0]
  /\ puts = [q \in Queues |-> << >>]
  /\ started = [q \in Queues |-> 0]
  /\ running = [q \in Queues |-> ZeroCount]
  /\ died = [q \in Queues |-> 0]
  /\ postPrint = 0
  /\ began = [p \in Phases |-> ZeroCount]
  /\ ended = [p \in Phases |-> ZeroCount]
  /\ mgmtThread = "none"
  /\ rebootThread = "none"
  /\ surfaced = {}
  /\ faults = 0

(***************************************************************************)
(* run_command_on_local, lines 1725-1747: the command returns, having      *)
(* succeeded ("ok") or not ("fail": a non-zero exit status, which is never *)
(* read, or a kill by the watchdog), or the call raises before the command *)
(* ran ("raise": Popen or Thread.start failing).                           *)
(***************************************************************************)
Outcomes ==
  IF faults + Cardinality(Packages \ hostPkgs) < MaxFaults
  THEN {"ok", "fail", "raise"}
  ELSE {"ok"}

\* bookkeeping of one command outcome: neither an exit status nor an
\* exception is recorded or printed by the script
Record(o) ==
  /\ faults' = IF o = "ok" THEN faults ELSE faults + 1
  /\ surfaced' = surfaced

(***************************************************************************)
(* deploy_to_all, lines 2237-2267: copy the packages to /tmp and set the   *)
(* OS globals.                                                             *)
(***************************************************************************)
Prepare ==
  /\ pc = "prepare"
  /\ tmpPkgs' = hostPkgs
  /\ COMPUTE_OS' = config.compute_os
  /\ MGMT_OS' = config.management_os
  /\ pc' = "loop"
  /\ UNCHANGED << notCS, config, hostPkgs, tmpScripts, loopIdx, step,
                  MANAGEMENT_NODE,
                  MASTER_NODES, queue, unfinished, puts, started, running,
                  died, postPrint, began, ended, mgmtThread, rebootThread,
                  surfaced, faults >>

\* Queue.put of node n on every queue of the sequence qs, in order
RECURSIVE PutAll(_, _, _)
PutAll(f, qs, n) ==
  IF qs = << >> THEN f
  ELSE PutAll([f EXCEPT ![Head(qs)] = Append(@, n)], Tail(qs), n)

\* a put that counts the task on every queue
CountAllEvery(u, qs) ==
  [q \in DOMAIN u |-> u[q] + (IF qs = << >> THEN 0 ELSE 1)]

\* Queue.put adds one to unfinished_tasks of the queue put on
RECURSIVE CountAll(_, _)
CountAll(u, qs) ==
  IF qs = << >> THEN u
  ELSE CountAll([u EXCEPT ![Head(qs)] = @ + 1], Tail(qs))

\* the queues the node loop puts one node into (lines 2303-2352)
QueuesForDouble(os, role, newPool) ==
  (IF role = ROLE_MGMT THEN << >>
   ELSE << "node_q", "node_q", "xen_check_bond_q" >>)
  \o (IF os = "xenserver" /\ role = ROLE_COMPUTE
      THEN IF newPool
           THEN << "xen_master_node_q", "xen_master_node_reboot_q" >>
           ELSE << "xen_slave_node_q", "xen_slave_node_reboot_q" >>
      ELSE << >>)

QueuesForAll(os, role, newPool) ==
  << "node_q", "node_mgmtintf_q", "xen_check_bond_q" >>
  \o (IF os = "xenserver" /\ role = ROLE_COMPUTE
      THEN IF newPool
           THEN << "xen_master_node_q", "xen_master_node_reboot_q" >>
           ELSE << "xen_slave_node_q", "xen_slave_node_reboot_q" >>
      ELSE << >>)

QueuesFor(os, role, newPool) ==
  (IF role = ROLE_MGMT THEN << >>
   ELSE << "node_q", "node_mgmtintf_q", "xen_check_bond_q" >>)
  \o (IF os = "xenserver" /\ role = ROLE_COMPUTE
      THEN IF newPool
           THEN << "xen_master_node_q", "xen_master_node_reboot_q" >>
           ELSE << "xen_slave_node_q", "xen_slave_node_reboot_q" >>
      ELSE << >>)

\* a test that takes every compute node for the first of its pool
PoolHasNoMasterAlways(masters, pool) == TRUE

\* line 2310: node.xenserver_pool not in MASTER_NODES.keys()
PoolHasNoMaster(masters, pool) == masters[pool] = 0

\* generate_command_for_node, lines 2113-2126: the script of a xenserver
\* slave is rendered from the local bond_intfs, which is assigned only in the
\* branch of line 1751 (lines 1797-1800); that branch is not taken for a
\* xenserver compute node, so the call raises UnboundLocalError
GenerateRaises(os, role, newPool) ==
  os = "xenserver" /\ role = ROLE_COMPUTE /\ ~newPool

(***************************************************************************)
(* CloudStack: generate_command_for_node, lines 1750-2143.                 *)
(*                                                                         *)
(* A written file is << name, template, values >>: the name after          *)
(* "/tmp/<hostname>.", the template rendered into it, and the substituted  *)
(* values that do not come from the node record.  The values taken from    *)
(* the node record are the same in every call of a behaviour and are left  *)
(* out.  A node has one bonded interface "eth", the bond "bond" and at     *)
(* most one bridge "br"; its bridge is absent, untagged or vlan-tagged.    *)
(***************************************************************************)
BridgeKinds == {"none", "untagged", "tagged"}

GenNodes == [role : {ROLE_MGMT, ROLE_COMPUTE}, bridges : BridgeKinds]

\* a later write of a call replaces an earlier one to the same file
Overwrite(old, new) ==
  {w \in old : \A v \in new : v[1] # w[1]} \cup new

\* line 1751: the ubuntu scripts are generated, and bond_intfs is assigned
\* (lines 1797-1800)
UbuntuBranch(node, cos, mos) ==
  cos = "ubuntu" \/ (node.role = ROLE_MGMT /\ mos = "ubuntu")

\* lines 1752-1884
UbuntuFiles(node, cos) ==
  { << "intf", "interfaces", << >> >>,
    << "pp",
       IF node.role = ROLE_MGMT THEN "MGMT_PUPPET" ELSE "COMPUTE_PUPPET",
       << >> >>,
    << "remote.sh", "NODE_REMOTE_BASH", << cos >> >>,
    << "local.sh", "NODE_LOCAL_BASH", << cos >> >> }
  \cup (IF node.role = ROLE_MGMT
          THEN {<< "db.sh", "DB_BASH", << >> >>}
          ELSE {})

\* lines 1886-2000: a centos management node (its management bond untagged,
\* by dhcp)
CentosMgmtFiles ==
  { << "ifcfg-eth", "CENTOS_ETH", << >> >>,
    << "ifcfg-bond", "CENTOS_BASE_DHCP_BOND", << >> >>,
    << "alias", "CENTOS_BOND_ALIAS", << >> >>,
    << "remote.sh", "CENTOS_MGMT_REMOTE", << >> >>,
    << "local.sh", "CENTOS_LOCAL", << "ifcfg-eth", "ifcfg-bond" >> >> }

\* line 2069: not os.path.isfile("/tmp/<hostname>.ifcfg-<bond_name>"),
\* evaluated after the bridge loop of the same call wrote its files
BaseBondMissing(tmp, written) ==
  "ifcfg-bond" \notin (tmp \cup written)

\* lines 2021-2068: the files of the bridge loop (the bridge by dhcp)
BridgeFiles(node) ==
  CASE node.bridges = "none" -> {}
    [] node.bridges = "untagged" ->
         { << "ifcfg-br", "CENTOS_DHCP_BRIDGE", << >> >>,
           << "ifcfg-bond", "CENTOS_BASE_BRIDGE_BOND", << >> >> }
    [] node.bridges = "tagged" ->
         { << "ifcfg-br", "CENTOS_DHCP_BRIDGE", << >> >>,
           << "ifcfg-bond.vlan", "CENTOS_TAGGED_BRIDGE_BOND", << >> >> }

\* intf_files after the bridge loop, lines 2003-2005, 2035, 2047, 2056
BridgeIfcfgs(node) ==
  CASE node.bridges = "none" -> << "ifcfg-eth" >>
    [] node.bridges = "untagged" -> << "ifcfg-eth", "ifcfg-br", "ifcfg-bond" >>
    [] node.bridges = "tagged" ->
         << "ifcfg-eth", "ifcfg-br", "ifcfg-bond.vlan" >>

\* lines 2002-2111: a centos compute node; the base bond file is written,
\* and named in the local script, only under "if node.bridges" (line 2021)
\* and only when the file is not in /tmp already
CentosComputeFiles(node, tmp) ==
  LET bridgeFiles == BridgeFiles(node)
      written == {w[1] : w \in bridgeFiles}
      base == node.bridges # "none" /\ BaseBondMissing(tmp, written)
      ifcfgs == IF base THEN Append(BridgeIfcfgs(node), "ifcfg-bond")
                        ELSE BridgeIfcfgs(node)
  IN  {<< "ifcfg-eth", "CENTOS_ETH", << >> >>}
        \cup bridgeFiles
        \cup (IF base THEN {<< "ifcfg-bond", "CENTOS_BASE_BOND", << >> >>}
                      ELSE {})
        \cup { << "alias", "CENTOS_BOND_ALIAS", << >> >>,
               << "remote.sh", "CENTOS_COMPUTE_REMOTE", << >> >>,
               << "local.sh", "CENTOS_LOCAL", ifcfgs >> }

\* lines 2115-2126: rendering XEN_SLAVE reads the local bond_intfs, which
\* only the ubuntu branch assigns; open() has created the file by then
XenSlaveRaises(node, cos, mos, master) ==
  /\ master # "self"
  /\ ~UbuntuBranch(node, cos, mos)

\* lines 2113-2143: a xenserver compute node
XenFiles(node, cos, mos, master) ==
  IF XenSlaveRaises(node, cos, mos, master)
    THEN {<< "slave.sh", "", << >> >>}
    ELSE (IF master # "self"
            THEN { << "slave.sh", "XEN_SLAVE", << master >> >>,
                   << "slave_reboot.sh", "XEN_SLAVE_REBOOT", << master >> >> }
            ELSE {})
         \cup { << "checkbond.sh", "XEN_CHECK_BOND", << >> >>,
                << "mgmtintf.sh", "XEN_CHANGE_MGMT_INTF", << >> >> }

\* generate_command_for_node(node), lines 1750-2143: the four branches in
\* the order of the code; what the call wrote and whether it raised
GeneratedFiles(node, cos, mos, master, tmp) ==
  LET one == IF UbuntuBranch(node, cos, mos)
               THEN UbuntuFiles(node, cos) ELSE {}
      two == IF node.role = ROLE_MGMT /\ mos = "centos"
               THEN Overwrite(one, CentosMgmtFiles) ELSE one
      three == IF node.role = ROLE_COMPUTE /\ cos = "centos"
                 THEN Overwrite(two, CentosComputeFiles(node, tmp)) ELSE two
      xen == cos = "xenserver" /\ node.role = ROLE_COMPUTE
      four == IF xen THEN Overwrite(three, XenFiles(node, cos, mos, master))
                     ELSE three
  IN  [files |-> four,
       raised |-> xen /\ XenSlaveRaises(node, cos, mos, master)]

\* node.hostname of the config entries, as a string of digits after a common
\* stem: the first entry is "<MaxNodes>0", entry i > 1 is "<i>", so that the
\* host name of the last of MaxNodes entries is a prefix of the first one's
\* and no other host name is a prefix of another
HostName(i) == IF i = 1 THEN << MaxNodes, 0 >> ELSE << i >>

IsPrefix(a, b) == Len(a) <= Len(b) /\ SubSeq(b, 1, Len(a)) = a

\* line 2302: 'sudo rm -rf /tmp/<hostname>*' for entry n removes every
\* script whose file name begins with the host name of n
RemoveHostFiles(files, n) ==
  {f \in files : ~IsPrefix(HostName(n), HostName(f[1]))}

\* line 2354: the names of the files generate_command_for_node leaves for
\* entry n (a node without bridges)
GeneratedNames(os, mos, role, newPool) ==
  LET out == GeneratedFiles([role |-> role, bridges |-> "none"], os, mos,
                            IF newPool THEN "self" ELSE "other", {})
  IN  {w[1] : w \in out.files}

\* lines 2356-2375: '/tmp/<hostname>.<pool>.bondip.sh' of every pool master
BondIpScripts(masters) ==
  {<< masters[p], "bondip.sh" >> : p \in {q \in Pools : masters[q] # 0}}

(***************************************************************************)
(* One iteration of the node loop, lines 2276-2354: the files of the host  *)
(* name are removed from /tmp, the node is queued, its scripts are         *)
(* generated.  The exception of                                            *)
(* generate_command_for_node, line 2354, is caught nowhere: it ends        *)
(* deploy_to_all and the script.                                           *)
(***************************************************************************)
LoopNode ==
  /\ pc = "loop"
  /\ loopIdx <= Len(config.nodes)
  /\ LET n == loopIdx
         nc == config.nodes[n]
         newPool == PoolHasNoMaster(MASTER_NODES, nc.pool)
         qs == QueuesFor(COMPUTE_OS, nc.role, newPool)
     IN /\ MANAGEMENT_NODE' = IF nc.role = ROLE_MGMT THEN n
                              ELSE MANAGEMENT_NODE
        /\ MASTER_NODES' =
             IF COMPUTE_OS = "xenserver" /\ nc.role = ROLE_COMPUTE /\ newPool
             THEN [MASTER_NODES EXCEPT ![nc.pool] = n]
             ELSE MASTER_NODES
        /\ queue' = PutAll(queue, qs, n)
        /\ puts' = PutAll(puts, qs, n)
        /\ unfinished' = CountAll(unfinished, qs)
        /\ tmpScripts' =
             RemoveHostFiles(tmpScripts, n)
               \cup {<< n, f >> :
                       f \in GeneratedNames(COMPUTE_OS, MGMT_OS, nc.role,
                                            newPool)}
        /\ pc' = IF GenerateRaises(COMPUTE_OS, nc.role, newPool)
                 THEN "crashed" ELSE pc
  /\ loopIdx' = loopIdx + 1
  /\ UNCHANGED << notCS, config, hostPkgs, tmpPkgs, step, COMPUTE_OS, MGMT_OS,
                  started, running, died, postPrint, began, ended,
                  mgmtThread, rebootThread, surfaced, faults >>

\* lines 2356-2375: after the loop the bondip scripts are written
LoopEnd ==
  /\ pc = "loop"
  /\ loopIdx > Len(config.nodes)
  /\ tmpScripts' = tmpScripts \cup BondIpScripts(MASTER_NODES)
  /\ pc' = "preflight"
  /\ UNCHANGED << notCS, config, hostPkgs, tmpPkgs, loopIdx, step, COMPUTE_OS,
                  MGMT_OS, MANAGEMENT_NODE, MASTER_NODES, queue, unfinished,
                  puts, started, running, died, postPrint, began, ended,
                  mgmtThread, rebootThread, surfaced, faults >>


(***************************************************************************)
(* Pre-flight guards, lines 2377-2391.                                     *)
(***************************************************************************)
\* the message of the first guard that fires, "" when none does
MissingPackage(os, mos, mgmt, qsize, tmp) ==
  IF (mgmt # 0 \/ os # "xenserver")
     /\ "CS_COMMON_RPM" \notin tmp /\ "CS_COMMON" \notin tmp
  THEN "cloudstack common package is missing"
  ELSE IF mgmt # 0 /\ "CS_MGMT_RPM" \notin tmp /\ "CS_MGMT" \notin tmp
  THEN "cloudstack management package is missing"
  ELSE IF os = "ubuntu" /\ qsize > 0 /\ "CS_AGENT" \notin tmp
  THEN "cloudstack agent package is missing"
  ELSE IF os = "centos" /\ qsize > 0 /\ "CS_AGENT_RPM" \notin tmp
  THEN "cloudstack agent package is missing"
  ELSE IF mos = "centos" /\ mgmt # 0 /\ "CS_AWSAPI_RPM" \notin tmp
  THEN "cloudstack awsapi package is missing"
  ELSE ""

Preflight ==
  /\ pc = "preflight"
  /\ LET msg == MissingPackage(COMPUTE_OS, MGMT_OS, MANAGEMENT_NODE,
                               Len(queue["node_q"]), tmpPkgs)
     IN IF msg # ""
        THEN /\ surfaced' = surfaced \cup {<<"preflight", 0, msg>>}
             /\ pc' = "aborted"
        ELSE /\ surfaced' = surfaced
             /\ pc' = "step0"
  /\ UNCHANGED << notCS, config, hostPkgs, tmpScripts,
                  tmpPkgs, loopIdx, step, COMPUTE_OS,
                  MGMT_OS, MANAGEMENT_NODE, MASTER_NODES, queue, unfinished,
                  puts, started, running, died, postPrint, began, ended,
                  mgmtThread, rebootThread, faults >>

(***************************************************************************)
(* The packages the generated local scripts copy from /tmp to the nodes:   *)
(* NODE_LOCAL_BASH (lines 1040-1049) for an ubuntu node, CENTOS_LOCAL      *)
(* (lines 1467-1482) for a centos node; generate_command_for_node writes   *)
(* the centos script last for a centos management node.                    *)
(***************************************************************************)
RequiredPkgs(c) ==
  LET roles == {c.nodes[i].role : i \in 1..Len(c.nodes)}
  IN (IF ROLE_MGMT \in roles
      THEN IF c.management_os = "centos"
           THEN {"CS_COMMON_RPM", "CS_MGMT_RPM", "CS_AWSAPI_RPM"}
           ELSE {"CS_COMMON", "CS_MGMT"}
      ELSE {})
     \cup
     (IF ROLE_COMPUTE \in roles
      THEN IF c.compute_os = "ubuntu" THEN {"CS_COMMON", "CS_AGENT"}
           ELSE IF c.compute_os = "centos"
                THEN {"CS_COMMON_RPM", "CS_AGENT_RPM"}
                ELSE {}
      ELSE {})

(***************************************************************************)
(* step 0, lines 2393-2397: the management thread is started and left      *)
(* running; it is joined only at the end of deploy_to_all.                 *)
(***************************************************************************)
StartManagement ==
  /\ pc = "step0"
  /\ IF MANAGEMENT_NODE # 0
     THEN /\ mgmtThread' = "running"
          /\ began' = [began EXCEPT !["setup_management"][MANAGEMENT_NODE] = @ + 1]
     ELSE UNCHANGED << mgmtThread, began >>
  /\ pc' = "spawn"
  /\ step' = 1
  /\ UNCHANGED << notCS, config, hostPkgs, tmpScripts,
                  tmpPkgs, loopIdx, COMPUTE_OS, MGMT_OS,
                  MANAGEMENT_NODE, MASTER_NODES, queue, unfinished, puts,
                  started, running, died, postPrint, ended, rebootThread,
                  surfaced, faults >>

\* worker_setup_management, lines 2146-2148: the thread ends however the
\* command ends
ManagementDone ==
  /\ mgmtThread = "running"
  /\ \E o \in Outcomes : Record(o)
  /\ mgmtThread' = "finished"
  /\ ended' = [ended EXCEPT !["setup_management"][MANAGEMENT_NODE] = @ + 1]
  /\ UNCHANGED << notCS, config, hostPkgs, tmpScripts,
                  tmpPkgs, pc, loopIdx, step, COMPUTE_OS,
                  MGMT_OS, MANAGEMENT_NODE, MASTER_NODES, queue, unfinished,
                  puts, started, running, died, postPrint, began,
                  rebootThread >>

(***************************************************************************)
(* A "for i in range(MAX_WORKERS)" loop, e.g. lines 2400-2403: the daemon  *)
(* worker threads of the current step are started.  Starting a thread      *)
(* touches nothing the workers read, so the loop is one step.              *)
(***************************************************************************)
\* a step that starts the worker function of the step after it
WorkerQueueNext(k) == QueueOrder[IF k < Len(QueueOrder) THEN k + 1 ELSE k]

\* the queue the worker function started at step k reads: worker_setup_master
\* reads node_q (step 1), ..., worker_check_bond reads xen_check_bond_q
WorkerQueue(k) == QueueOrder[k]

SpawnWorkers ==
  /\ pc = "spawn"
  /\ started' = [started EXCEPT ![WorkerQueue(step)] = @ + MAX_WORKERS]
  /\ pc' = "join"
  /\ UNCHANGED << notCS, config, hostPkgs, tmpScripts,
                  tmpPkgs, loopIdx, step, COMPUTE_OS,
                  MGMT_OS, MANAGEMENT_NODE, MASTER_NODES, queue, unfinished,
                  puts, running, died, postPrint, began, ended, mgmtThread,
                  rebootThread, surfaced, faults >>

\* Queue.join returns when every put has been matched by a task_done
JoinReadyNoWait(q) == TRUE

JoinReady(q) == unfinished[q] = 0

\* line 2405: the topologies whose run ends after step 1
NonPooledUbuntuOnly(os) == os = "ubuntu"

NonPooled(os) == os = "ubuntu" \/ os = "centos"

(***************************************************************************)
(* q.join() of the current step returns, lines 2404-2467: after step 1 a   *)
(* non-pooled run goes to the final part, a xenserver run to the next      *)
(* step; after step 7 the final part follows.                              *)
(***************************************************************************)
Join ==
  /\ pc = "join"
  /\ JoinReady(QueueOrder[step])
  /\ IF (step = 1 /\ NonPooled(COMPUTE_OS)) \/ step = Len(QueueOrder)
     THEN /\ pc' = "final"
          /\ step' = step
     ELSE /\ pc' = "spawn"
          /\ step' = step + 1
  /\ UNCHANGED << notCS, config, hostPkgs, tmpScripts,
                  tmpPkgs, loopIdx, COMPUTE_OS, MGMT_OS,
                  MANAGEMENT_NODE, MASTER_NODES, queue, unfinished, puts,
                  started, running, died, postPrint, began, ended,
                  mgmtThread, rebootThread, surfaced, faults >>

(***************************************************************************)
(* The final part, lines 2406-2416 and 2469-2479: join the management      *)
(* thread, then run worker_reboot_management in a thread and join it.      *)
(***************************************************************************)
FinalNoManagement ==
  /\ pc = "final"
  /\ MANAGEMENT_NODE = 0
  /\ pc' = "done"
  /\ UNCHANGED << notCS, config, hostPkgs, tmpScripts,
                  tmpPkgs, loopIdx, step, COMPUTE_OS,
                  MGMT_OS, MANAGEMENT_NODE, MASTER_NODES, queue, unfinished,
                  puts, started, running, died, postPrint, began, ended,
                  mgmtThread, rebootThread, surfaced, faults >>

\* a final part that does not wait for the management thread
ManagementJoinedNoWait(th) == TRUE

\* lines 2407 and 2470: management_node_thread.join() returns
ManagementJoined(th) == th = "finished"

JoinManagement ==
  /\ pc = "final"
  /\ MANAGEMENT_NODE # 0
  /\ ManagementJoined(mgmtThread)
  /\ rebootThread' = "running"
  /\ began' = [began EXCEPT !["reboot_management"][MANAGEMENT_NODE] = @ + 1]
  /\ pc' = "join_reboot"
  /\ UNCHANGED << notCS, config, hostPkgs, tmpScripts,
                  tmpPkgs, loopIdx, step, COMPUTE_OS,
                  MGMT_OS, MANAGEMENT_NODE, MASTER_NODES, queue, unfinished,
                  puts, started, running, died, postPrint, ended,
                  mgmtThread, surfaced, faults >>

\* worker_reboot_management, lines 2219-2225
RebootDone ==
  /\ rebootThread = "running"
  /\ \E o \in Outcomes : Record(o)
  /\ rebootThread' = "finished"
  /\ ended' = [ended EXCEPT !["reboot_management"][MANAGEMENT_NODE] = @ + 1]
  /\ UNCHANGED << notCS, config, hostPkgs, tmpScripts,
                  tmpPkgs, pc, loopIdx, step, COMPUTE_OS,
                  MGMT_OS, MANAGEMENT_NODE, MASTER_NODES, queue, unfinished,
                  puts, started, running, died, postPrint, began,
                  mgmtThread >>

JoinReboot ==
  /\ pc = "join_reboot"
  /\ rebootThread = "finished"
  /\ pc' = "done"
  /\ UNCHANGED << notCS, config, hostPkgs, tmpScripts,
                  tmpPkgs, loopIdx, step, COMPUTE_OS,
                  MGMT_OS, MANAGEMENT_NODE, MASTER_NODES, queue, unfinished,
                  puts, started, running, died, postPrint, began, ended,
                  mgmtThread, rebootThread, surfaced, faults >>

(***************************************************************************)
(* The worker functions, lines 2151-2235.  Every worker is the loop        *)
(*   node = q.get(); run_command_on_local(cmd); q.task_done()              *)
(* on its own queue.  The workers of a queue are interchangeable, so the   *)
(* model keeps how many were started, how many died and which nodes are    *)
(* being worked on; the others are blocked in q.get().                     *)
(***************************************************************************)
RECURSIVE SumUpTo(_, _)
SumUpTo(f, k) == IF k = 0 THEN 0 ELSE f[k] + SumUpTo(f, k - 1)

\* workers of q that are not blocked in q.get()
Busy(q) ==
  SumUpTo(running[q], MaxNodes) + died[q]
  + (IF q = "xen_check_bond_q" THEN postPrint ELSE 0)

\* workers of q blocked in q.get()
Idle(q) == started[q] - Busy(q)

\* the worker calls task_done after run_command_on_local has returned
TaskDoneBeforeCommand == FALSE

TaskDoneAfterCommand == TRUE

TaskDone(u, q) == [u EXCEPT ![q] = @ - 1]

\* a get that leaves the item in the queue
DequeueKeep(s) == s

\* Queue.get removes the item it returns
Dequeue(s) == Tail(s)

\* q.get() returns a node and the worker starts its command
WorkerGet(q) ==
  /\ Idle(q) > 0
  /\ queue[q] # << >>
  /\ LET n == Head(queue[q])
     IN /\ queue' = [queue EXCEPT ![q] = Dequeue(@)]
        /\ began' = [began EXCEPT ![q][n] = @ + 1]
        /\ unfinished' = IF TaskDoneAfterCommand THEN unfinished
                         ELSE TaskDone(unfinished, q)
        /\ \/ /\ running' = [running EXCEPT ![q][n] = @ + 1]
              /\ UNCHANGED << died, surfaced, faults >>
           \/ \* run_command_on_local raises: the thread ends, no task_done
              /\ "raise" \in Outcomes
              /\ died' = [died EXCEPT ![q] = @ + 1]
              /\ Record("raise")
              /\ UNCHANGED running
  /\ UNCHANGED << notCS, config, hostPkgs, tmpScripts,
                  tmpPkgs, pc, loopIdx, step, COMPUTE_OS,
                  MGMT_OS, MANAGEMENT_NODE, MASTER_NODES, puts, started,
                  postPrint, ended, mgmtThread, rebootThread >>

\* run_command_on_local returns and the worker calls q.task_done()
WorkerDone(q) ==
  \E n \in NodeIds :
    /\ running[q][n] > 0
    /\ \E o \in Outcomes \ {"raise"} : Record(o)
    /\ running' = [running EXCEPT ![q][n] = @ - 1]
    /\ ended' = [ended EXCEPT ![q][n] = @ + 1]
    /\ unfinished' = IF TaskDoneAfterCommand THEN TaskDone(unfinished, q)
                     ELSE unfinished
    /\ postPrint' = IF q = "xen_check_bond_q" THEN postPrint + 1
                    ELSE postPrint
    /\ UNCHANGED << notCS, config, hostPkgs, tmpScripts,
                  tmpPkgs, pc, loopIdx, step,
                    COMPUTE_OS, MGMT_OS, MANAGEMENT_NODE, MASTER_NODES,
                    queue, puts, started, died, began, mgmtThread,
                    rebootThread >>

\* worker_check_bond, line 2235: the safe_print after task_done returns
CheckBondPrinted ==
  /\ postPrint > 0
  /\ postPrint' = postPrint - 1
  /\ UNCHANGED << notCS, config, hostPkgs, tmpScripts,
                  tmpPkgs, pc, loopIdx, step, COMPUTE_OS,
                  MGMT_OS, MANAGEMENT_NODE, MASTER_NODES, queue, unfinished,
                  puts, started, running, died, began, ended, mgmtThread,
                  rebootThread, surfaced, faults >>

NextCS ==
  \/ Prepare
  \/ LoopNode
  \/ LoopEnd
  \/ Preflight
  \/ StartManagement
  \/ ManagementDone
  \/ SpawnWorkers
  \/ Join
  \/ FinalNoManagement
  \/ JoinManagement
  \/ RebootDone
  \/ JoinReboot
  \/ \E q \in Queues : WorkerGet(q)
  \/ \E q \in Queues : WorkerDone(q)
  \/ CheckBondPrinted


(***************************************************************************)
(* OpenStack: TimedCommand, openstack/big_patch.py lines 64-98.            *)
(*                                                                         *)
(* run() starts a thread that spawns the process and waits for it in       *)
(* communicate(); the caller waits thread.join(timeout), and when the      *)
(* thread is still alive calls self.process.terminate(), joins the thread  *)
(* and retries by calling itself.  The thread writes self.process and the  *)
(* caller reads it without synchronisation.                                *)
(*                                                                         *)
(* A process is "running", then "exited" (ended, not yet waited for), then *)
(* "reaped" once communicate() has collected it.                           *)
(***************************************************************************)
Attempts == 1..(MaxRetries + 2)

StartTC ==
  /\ tcPc = "call"
  /\ tcAttempt = 1
  /\ tcShell = tcShellArg
  /\ selfRetries = 0
  /\ selfProcess = 0
  /\ selfResp = "None"
  /\ selfErrors = "None"
  /\ tcThread = "none"
  /\ tcProc = [a \in Attempts |-> "none"]
  /\ tcSignalled = {}
  /\ tcTimeouts = 0

\* lines 85-86: thread = Thread(target=target); thread.start()
TCStartThread ==
  /\ tcPc = "call"
  /\ tcThread' = "spawning"
  /\ tcPc' = "joining"
  /\ UNCHANGED << notTC, tcShellArg, tcRetriesArg, tcAttempt, tcShell,
                  selfRetries, selfProcess, selfResp, selfErrors, tcProc,
                  tcSignalled, tcTimeouts >>

\* Popen of a command string without shell=True looks for a program of that
\* whole name and raises; any other spawn may succeed or raise
SpawnMayWork(isString, shell) == ~isString \/ shell

\* target(), lines 76-82: subprocess.Popen returns or raises
TCSpawn ==
  /\ tcThread = "spawning"
  /\ \/ /\ SpawnMayWork(tcShellArg, tcShell)
        /\ selfProcess' = tcAttempt
        /\ tcProc' = [tcProc EXCEPT ![tcAttempt] = "running"]
        /\ tcThread' = "communicating"
        /\ UNCHANGED selfErrors
     \/ /\ selfErrors' = "open_error"
        /\ tcThread' = "finished"
        /\ UNCHANGED << selfProcess, tcProc >>
  /\ UNCHANGED << notTC, tcShellArg, tcRetriesArg, tcPc, tcAttempt, tcShell,
                  selfRetries, selfResp, tcSignalled, tcTimeouts >>

\* the spawned command ends by itself
TCProcExit ==
  \E a \in Attempts :
    /\ tcProc[a] = "running"
    /\ tcProc' = [tcProc EXCEPT ![a] = "exited"]
    /\ UNCHANGED << notTC, tcShellArg, tcRetriesArg, tcPc, tcAttempt,
                    tcShell, selfRetries, selfProcess, selfResp, selfErrors,
                    tcThread, tcSignalled, tcTimeouts >>

\* target(), line 83: communicate() returns once the process has ended
TCCommunicate ==
  /\ tcThread = "communicating"
  /\ tcProc[tcAttempt] = "exited"
  /\ tcProc' = [tcProc EXCEPT ![tcAttempt] = "reaped"]
  /\ selfResp' = "stdout"
  /\ selfErrors' \in {"", "stderr"}
  /\ tcThread' = "finished"
  /\ UNCHANGED << notTC, tcShellArg, tcRetriesArg, tcPc, tcAttempt, tcShell,
                  selfRetries, selfProcess, tcSignalled, tcTimeouts >>

\* a run that also retries a command that wrote to stderr
RetryWhenFinishedOnErrors(errs, used, retries) ==
  errs \notin {"None", ""} /\ used < retries

\* lines 89-98: the retry is inside "if thread.is_alive()"; with the thread
\* finished, run goes to the return of line 98 whatever self.errors holds
RetryWhenFinished(errs, used, retries) == FALSE

\* lines 88-89 and 98: join(timeout) returned and the thread is not alive
TCReturn ==
  /\ tcPc = "joining"
  /\ tcThread = "finished"
  /\ IF RetryWhenFinished(selfErrors, selfRetries, tcRetriesArg)
     THEN /\ selfRetries' = selfRetries + 1
          /\ tcAttempt' = tcAttempt + 1
          /\ tcThread' = "none"
          /\ tcPc' = "call"
     ELSE /\ tcPc' = "returned"
          /\ UNCHANGED << selfRetries, tcAttempt, tcThread >>
  /\ UNCHANGED << notTC, tcShellArg, tcRetriesArg, tcShell, selfProcess,
                  selfResp, selfErrors, tcProc, tcSignalled, tcTimeouts >>

\* lines 88-89: join(timeout) returned by timeout and the thread is alive
TCTimeout ==
  /\ tcPc = "joining"
  /\ tcThread # "finished"
  /\ tcPc' = "terminate"
  /\ tcTimeouts' = tcTimeouts + 1
  /\ UNCHANGED << notTC, tcShellArg, tcRetriesArg, tcAttempt, tcShell,
                  selfRetries, selfProcess, selfResp, selfErrors, tcThread,
                  tcProc, tcSignalled >>

(***************************************************************************)
(* line 90: self.process.terminate().  On None it raises AttributeError.   *)
(* Popen.terminate is os.kill(pid, SIGTERM): a running process ends, an    *)
(* ended one ignores it, and for a reaped one the call raises OSError or,  *)
(* the pid having been given to another process, signals that one.         *)
(***************************************************************************)
TCTerminate ==
  /\ tcPc = "terminate"
  /\ IF selfProcess = 0
     THEN /\ tcPc' = "raised"
          /\ UNCHANGED << tcProc, tcSignalled >>
     ELSE \/ /\ tcProc[selfProcess] = "running"
             /\ tcProc' = [tcProc EXCEPT ![selfProcess] = "exited"]
             /\ tcSignalled' = tcSignalled \cup {selfProcess}
             /\ tcPc' = "join"
          \/ /\ tcProc[selfProcess] = "exited"
             /\ tcSignalled' = tcSignalled \cup {selfProcess}
             /\ tcPc' = "join"
             /\ UNCHANGED tcProc
          \/ /\ tcProc[selfProcess] = "reaped"
             /\ tcPc' \in {"raised", "join"}
             /\ UNCHANGED << tcProc, tcSignalled >>
  /\ UNCHANGED << notTC, tcShellArg, tcRetriesArg, tcAttempt, tcShell,
                  selfRetries, selfProcess, selfResp, selfErrors, tcThread,
                  tcTimeouts >>

\* the shell argument of the recursive call, line 94: self.run(timeout,
\* retries) leaves shell at its default
RetryShell(shell) == FALSE

\* the retry test of line 92
MayRetry(used, retries) == used < retries

\* lines 91-96: thread.join() returned; retry or give up
TCAfterJoin ==
  /\ tcPc = "join"
  /\ tcThread = "finished"
  /\ IF MayRetry(selfRetries, tcRetriesArg)
     THEN /\ selfRetries' = selfRetries + 1
          /\ tcAttempt' = tcAttempt + 1
          /\ tcShell' = RetryShell(tcShell)
          /\ tcThread' = "none"
          /\ tcPc' = "call"
          /\ UNCHANGED selfErrors
     ELSE /\ selfErrors' = "timed_out"
          /\ tcPc' = "returned"
          /\ UNCHANGED << selfRetries, tcAttempt, tcShell, tcThread >>
  /\ UNCHANGED << notTC, tcShellArg, tcRetriesArg, selfProcess, selfResp,
                  tcProc, tcSignalled, tcTimeouts >>

NextTC ==
  \/ TCStartThread
  \/ TCSpawn
  \/ TCProcExit
  \/ TCCommunicate
  \/ TCReturn
  \/ TCTimeout
  \/ TCTerminate
  \/ TCAfterJoin

(***************************************************************************)
(* OpenStack: ConfigDeployer.deploy_to_all and                             *)
(* deploy_to_node_catch_errors, openstack/big_patch.py lines 512-545.      *)
(***************************************************************************)
StartOS ==
  /\ osPc = "loop"
  /\ osIdx = 1
  /\ thread_list = << >>
  /\ osJoining = 0
  /\ osThread = [n \in NodeIds |-> "none"]
  /\ osRaised = {}
  /\ errors = << >>
  /\ node_information = << >>
  /\ osPrinted = << >>

\* a test that lets the deque grow one thread longer before the oldest is
\* popped
DequeFullLate(tl) == Len(tl) > MAX_THREADS

\* line 521: len(thread_list) >= MAX_THREADS
DequeFull(tl) == Len(tl) >= MAX_THREADS

\* lines 516-523: start the thread of the next node; when MAX_THREADS are
\* in the deque, pop the oldest to join it
OSStartThread ==
  /\ osPc = "loop"
  /\ osIdx <= envNodes
  /\ osThread' = [osThread EXCEPT ![osIdx] = "running"]
  /\ osIdx' = osIdx + 1
  /\ LET tl == Append(thread_list, osIdx)
     IN IF DequeFull(tl)
        THEN /\ thread_list' = Tail(tl)
             /\ osJoining' = Head(tl)
             /\ osPc' = "join_top"
        ELSE /\ thread_list' = tl
             /\ UNCHANGED << osJoining, osPc >>
  /\ UNCHANGED << notOS, envNodes, osRaised, errors, node_information,
                  osPrinted >>

\* line 523: top.join() returns
OSJoinTop ==
  /\ osPc = "join_top"
  /\ osThread[osJoining] = "finished"
  /\ osJoining' = 0
  /\ osPc' = "loop"
  /\ UNCHANGED << notOS, envNodes, osIdx, thread_list, osThread, osRaised,
                  errors, node_information, osPrinted >>

\* the start loop is over; lines 524-525 iterate over the deque
OSLoopEnd ==
  /\ osPc = "loop"
  /\ osIdx > envNodes
  /\ osIdx' = 1
  /\ osPc' = "join_rest"
  /\ UNCHANGED << notOS, envNodes, thread_list, osJoining, osThread,
                  osRaised, errors, node_information, osPrinted >>

\* line 525: thread.join() of the next thread of the deque returns
OSJoinRest ==
  /\ osPc = "join_rest"
  /\ osIdx <= Len(thread_list)
  /\ osThread[thread_list[osIdx]] = "finished"
  /\ osIdx' = osIdx + 1
  /\ UNCHANGED << notOS, envNodes, osPc, thread_list, osJoining, osThread,
                  osRaised, errors, node_information, osPrinted >>

\* the distinct connection strings collected
ConnStrings(info) == {info[i][2] : i \in 1..Len(info)}

\* a summary that does not look at the error list
SummaryLineComplete(errs) == "Deployment Complete!"

\* lines 534-539: the line that closes the summary
SummaryLine(errs) ==
  IF errs # << >>
  THEN "Encountered errors while deploying patch to nodes."
  ELSE "Deployment Complete!"

\* lines 526-539: the summary
OSSummary ==
  /\ osPc = "join_rest"
  /\ osIdx > Len(thread_list)
  /\ osPrinted' =
       (IF Cardinality(ConnStrings(node_information)) > 1
        THEN << "Warning: different neutron connection strings" >>
        ELSE << >>)
       \o << SummaryLine(errors) >>
  /\ osPc' = "done"
  /\ UNCHANGED << notOS, envNodes, osIdx, thread_list, osJoining, osThread,
                  osRaised, errors, node_information >>

\* deploy_to_node raises an Exception somewhere in lines 573-848; control
\* is in the except clause of deploy_to_node_catch_errors
OSNodeRaise(n) ==
  /\ osThread[n] = "running"
  /\ osThread' = [osThread EXCEPT ![n] = "except"]
  /\ osRaised' = osRaised \cup {n}
  /\ UNCHANGED << notOS, envNodes, osPc, osIdx, thread_list, osJoining,
                  errors, node_information, osPrinted >>

\* an except clause that rebinds the list instead of appending to it
RecordErrorOverwrite(log, n) == << <<n, "error">> >>

\* line 545: error_log.append((node, str(e)))
RecordError(log, n) == Append(log, <<n, "error">>)

OSNodeRecord(n) ==
  /\ osThread[n] = "except"
  /\ errors' = RecordError(errors, n)
  /\ osThread' = [osThread EXCEPT ![n] = "finished"]
  /\ UNCHANGED << notOS, envNodes, osPc, osIdx, thread_list, osJoining,
                  osRaised, node_information, osPrinted >>

\* the locks a deploy thread holds while it appends to one of the shared
\* lists: deploy_to_node_catch_errors and deploy_to_node acquire none, the
\* two lists are plain Python lists
LocksHeld(n) == {}

\* a collection that rebinds the list instead of appending to it
CollectInfoOverwrite(info, n, c) == << <<n, c>> >>

\* lines 846-848: node_information.append((node, {...})); list.append is
\* one step of the interpreter
CollectInfo(info, n, c) == Append(info, <<n, c>>)

\* lines 838-848: the node runs neutron-server and a connection string was
\* read: it is appended to node_information
OSNodeCollect(n) ==
  /\ osThread[n] = "running"
  /\ \E c \in {"db1", "db2"} :
       node_information' = CollectInfo(node_information, n, c)
  /\ osThread' = [osThread EXCEPT ![n] = "collected"]
  /\ UNCHANGED << notOS, envNodes, osPc, osIdx, thread_list, osJoining,
                  osRaised, errors, osPrinted >>

\* line 849: deploy_to_node returns, having collected a string or not
OSNodeReturn(n) ==
  /\ osThread[n] \in {"running", "collected"}
  /\ osThread' = [osThread EXCEPT ![n] = "finished"]
  /\ UNCHANGED << notOS, envNodes, osPc, osIdx, thread_list, osJoining,
                  osRaised, errors, node_information, osPrinted >>

NextOS ==
  \/ OSStartThread
  \/ OSJoinTop
  \/ OSLoopEnd
  \/ OSJoinRest
  \/ OSSummary
  \/ \E n \in NodeIds : OSNodeRaise(n)
  \/ \E n \in NodeIds : OSNodeRecord(n)
  \/ \E n \in NodeIds : OSNodeCollect(n)
  \/ \E n \in NodeIds : OSNodeReturn(n)

(***************************************************************************)
(* OpenStack: the main block, openstack/big_patch.py lines 1882-2012, with *)
(* the environment constructors and the part of deploy_to_node that reads  *)
(* the bond and bridge settings (lines 573-629).  mnTouched records the    *)
(* nodes on which run_command_on_node has executed a command.              *)
(***************************************************************************)
Modes == {"fuel", "config", "standalone"}

ArgNames == {"controllers", "controller_auth", "bond_mode", "cluster_name"}

\* bond and bridge settings of a node: no bond interfaces; bond interfaces
\* with both bridge settings; bond interfaces without bridge_mappings; bond
\* interfaces without physical_interface_bridge
NodeConfs == {"plain", "bonded", "no_mapping", "no_phy"}

BadConfs == {"no_mapping", "no_phy"}

BadArgs(args) == {a \in ArgNames : args[a] = "bad"}

BadNodes(conf, n) == {i \in 1..n : conf[i] \in BadConfs}

StartMain ==
  /\ mnPc = "parse"
  /\ mnIdx = 1
  /\ mnNode = [n \in NodeIds |-> "none"]
  /\ mnTouched = {}
  /\ mnError = ""

\* parser.error and an uncaught Exception both end the process
MainAbort(msg) ==
  /\ mnPc' = "aborted"
  /\ mnError' = msg

\* lines 1964-1991: the environment is built.  FuelEnvironment.__init__
\* goes on to fetch the configuration of every node; the stand-alone branch
\* checks the bond flags; ConfigEnvironment.__init__ reads the YAML only.
MainEnvironment ==
  /\ mnPc = "parse"
  /\ IF mnMode = "fuel"
     THEN \/ mnPc' = "fuel_nodes" /\ UNCHANGED mnError
          \/ MainAbort("Error Loading cluster")
     ELSE IF mnMode = "standalone" /\ mnConf[1] \in BadConfs
          THEN MainAbort("Missing required params")
          ELSE mnPc' = "bond_mode" /\ UNCHANGED mnError
  /\ UNCHANGED << notMain, mnMode, mnArgs, mnN, mnConf, mnIdx, mnNode,
                  mnTouched >>

\* FuelEnvironment.__init__, lines 345-346, and get_node_config, lines
\* 348-359: cat /etc/astute.yaml is run on the node over SSH
MainFuelNodeConfig ==
  /\ mnPc = "fuel_nodes"
  /\ mnIdx <= mnN
  /\ mnTouched' = mnTouched \cup {mnIdx}
  /\ \/ mnIdx' = mnIdx + 1 /\ UNCHANGED << mnPc, mnError >>
     \/ MainAbort("Error retrieving config for node") /\ UNCHANGED mnIdx
  /\ UNCHANGED << notMain, mnMode, mnArgs, mnN, mnConf, mnNode >>

MainFuelNodesDone ==
  /\ mnPc = "fuel_nodes"
  /\ mnIdx > mnN
  /\ mnPc' = "bond_mode"
  /\ UNCHANGED << notMain, mnMode, mnArgs, mnN, mnConf, mnIdx, mnNode,
                  mnTouched, mnError >>

\* lines 1995-1999
MainBondMode ==
  /\ mnPc = "bond_mode"
  /\ IF mnArgs["bond_mode"] = "bad"
     THEN MainAbort("Unsupported bond mode")
     ELSE mnPc' = "servers" /\ UNCHANGED mnError
  /\ UNCHANGED << notMain, mnMode, mnArgs, mnN, mnConf, mnIdx, mnNode,
                  mnTouched >>

\* line 2001 and set_bigswitch_servers, lines 139-146
MainSetServers ==
  /\ mnPc = "servers"
  /\ IF mnArgs["controllers"] = "bad"
     THEN MainAbort("Invalid server")
     ELSE mnPc' = "auth" /\ UNCHANGED mnError
  /\ UNCHANGED << notMain, mnMode, mnArgs, mnN, mnConf, mnIdx, mnNode,
                  mnTouched >>

\* line 2002 and set_bigswitch_auth, lines 148-152
MainSetAuth ==
  /\ mnPc = "auth"
  /\ IF mnArgs["controller_auth"] = "bad"
     THEN MainAbort("Invalid credentials")
     ELSE mnPc' = "neutron_id" /\ UNCHANGED mnError
  /\ UNCHANGED << notMain, mnMode, mnArgs, mnN, mnConf, mnIdx, mnNode,
                  mnTouched >>

\* neutron_id as the main block computes it: an empty --neutron-cluster-name
\* passes the pattern of line 1961, and line 1965 makes it "<name>-<env>" in
\* Fuel mode, which is never empty
NeutronIdEmpty(mode, args) == args["cluster_name"] = "bad" /\ mode # "fuel"

\* line 2003 and set_neutron_id, lines 134-137
MainSetNeutronId ==
  /\ mnPc = "neutron_id"
  /\ IF NeutronIdEmpty(mnMode, mnArgs)
     THEN MainAbort("A non-empty cluster-id must be specified.")
     ELSE mnPc' = "deployer" /\ UNCHANGED mnError
  /\ UNCHANGED << notMain, mnMode, mnArgs, mnN, mnConf, mnIdx, mnNode,
                  mnTouched >>

\* lines 2009-2012: ConfigDeployer is built and deploy_to_all starts the
\* thread of every node
MainDeploy ==
  /\ mnPc = "deployer"
  /\ mnPc' = "deploy"
  /\ mnNode' = [n \in NodeIds |-> IF n <= mnN THEN "start" ELSE "none"]
  /\ UNCHANGED << notMain, mnMode, mnArgs, mnN, mnConf, mnIdx, mnTouched,
                  mnError >>

\* deploy_to_node, lines 575-618: with bond interfaces, ifconfig is run on
\* the node for each of them
MainNodeBondCheck(n) ==
  /\ mnNode[n] = "start"
  /\ IF mnConf[n] = "plain"
     THEN /\ mnNode' = [mnNode EXCEPT ![n] = "bridged"]
          /\ UNCHANGED mnTouched
     ELSE /\ mnTouched' = mnTouched \cup {n}
          /\ mnNode' \in {[mnNode EXCEPT ![n] = "checked"],
                          [mnNode EXCEPT ![n] = "raised"]}
  /\ UNCHANGED << notMain, mnMode, mnArgs, mnN, mnConf, mnPc, mnIdx,
                  mnError >>

\* get_node_phy_bridge and get_node_bridge_mappings of the environment:
\* ConfigEnvironment (lines 269-297) and StandaloneEnvironment (lines
\* 439-453) raise on a missing value; FuelEnvironment (lines 398-421)
\* derives the mapping and raises when the bond has no bridge
BridgesMissing(mode, c) ==
  \/ c = "no_phy"
  \/ c = "no_mapping" /\ mode # "fuel"

\* deploy_to_node, lines 619-629: the host name is read on the node, then
\* the bridge settings of the node are looked up
MainNodeBridges(n) ==
  /\ mnNode[n] = "checked"
  /\ mnNode' = [mnNode EXCEPT
                  ![n] = IF BridgesMissing(mnMode, mnConf[n])
                         THEN "raised" ELSE "bridged"]
  /\ UNCHANGED << notMain, mnMode, mnArgs, mnN, mnConf, mnPc, mnIdx,
                  mnTouched, mnError >>

\* whether run_command_on_node of the environment takes the keyword shell:
\* SSHEnvironment declares it (lines 191-192), StandaloneEnvironment does
\* not (line 460) and the call raises TypeError
AcceptsShell(mode) == mode # "standalone"

\* deploy_to_node, lines 636-637: get_node_python_package_path (lines
\* 160-171) asks for the path of the neutron package with shell=True; the
\* request is rejected ("rejected"), or the command runs and the call
\* returns or raises
MainNodePackagePath(n) ==
  /\ mnNode[n] = "bridged"
  /\ IF AcceptsShell(mnMode)
     THEN /\ mnTouched' = mnTouched \cup {n}
          /\ mnNode' \in {[mnNode EXCEPT ![n] = "pathed"],
                          [mnNode EXCEPT ![n] = "raised"]}
     ELSE /\ mnNode' = [mnNode EXCEPT ![n] = "rejected"]
          /\ UNCHANGED mnTouched
  /\ UNCHANGED << notMain, mnMode, mnArgs, mnN, mnConf, mnPc, mnIdx,
                  mnError >>

\* deploy_to_node, lines 638-849: the rest of the deployment runs commands
\* on the node and returns or raises
MainNodePuppet(n) ==
  /\ mnNode[n] = "pathed"
  /\ mnTouched' = mnTouched \cup {n}
  /\ mnNode' \in {[mnNode EXCEPT ![n] = "deployed"],
                  [mnNode EXCEPT ![n] = "raised"]}
  /\ UNCHANGED << notMain, mnMode, mnArgs, mnN, mnConf, mnPc, mnIdx,
                  mnError >>

\* deploy_to_all has joined every thread and printed its summary
MainDone ==
  /\ mnPc = "deploy"
  /\ \A n \in 1..mnN : mnNode[n] \in {"deployed", "raised", "rejected"}
  /\ mnPc' = "done"
  /\ UNCHANGED << notMain, mnMode, mnArgs, mnN, mnConf, mnIdx, mnNode,
                  mnTouched, mnError >>

NextMain ==
  \/ MainEnvironment
  \/ MainFuelNodeConfig
  \/ MainFuelNodesDone
  \/ MainBondMode
  \/ MainSetServers
  \/ MainSetAuth
  \/ MainSetNeutronId
  \/ MainDeploy
  \/ \E n \in NodeIds : MainNodeBondCheck(n)
  \/ \E n \in NodeIds : MainNodeBridges(n)
  \/ \E n \in NodeIds : MainNodePackagePath(n)
  \/ \E n \in NodeIds : MainNodePuppet(n)
  \/ MainDone

\* the values deploy_to_all gives the globals: COMPUTE_OS and MGMT_OS from
\* the configuration (lines 2266-2267); MASTER_NODES[pool] is the node
\* itself or a compute node of its pool that was processed earlier (lines
\* 2310-2311)
GenGlobals ==
  /\ gnComputeOs' \in ComputeOSes
  /\ gnMgmtOs' \in MgmtOSes
  /\ gnMaster' \in {"self", "other"}

\* the script is run once more, with a configuration that holds the same
\* node record; /tmp keeps the files of the earlier runs
GenNewRun ==
  /\ gnCalls # << >>
  /\ Len(gnCalls) < MaxCalls
  /\ GenGlobals
  /\ UNCHANGED << gnNode, gnTmp, gnCalls >>
  /\ UNCHANGED notGen

\* line 2354: generate_command_for_node(node)
GenCall ==
  /\ Len(gnCalls) < MaxCalls
  /\ LET out == GeneratedFiles(gnNode, gnComputeOs, gnMgmtOs, gnMaster,
                                gnTmp)
     IN  /\ gnCalls' = Append(gnCalls, out)
         /\ gnTmp' = gnTmp \cup {w[1] : w \in out.files}
  /\ UNCHANGED << gnNode, gnComputeOs, gnMgmtOs, gnMaster >>
  /\ UNCHANGED notGen

NextGen ==
  \/ GenNewRun
  \/ GenCall

(***************************************************************************)
(* CloudStack: run_command_on_local (lines 1725-1747) with its threads     *)
(* read_output (lines 1694-1700) and kill_on_timeout (lines 1703-1706),    *)
(* and safe_print (lines 1687-1692).                                       *)
(*                                                                         *)
(* One call is followed.  It is either the 'stty sane' call of line 1689,  *)
(* whose caller is inside "with print_lock", or the call of a worker,      *)
(* whose caller holds no lock.  The threads of the call print through      *)
(* safe_print: they acquire print_lock, run 'stty sane' themselves, write, *)
(* and release.  Such a nested safe_print is followed up to its own 'stty  *)
(* sane': when that command writes a line, the thread is in the situation  *)
(* of the caller of a "stty" call, holding the lock ("stuck" when that     *)
(* call cannot return).                                                    *)
(***************************************************************************)
Readers == {"tout", "terr"}

StartRL ==
  /\ rlPc = "popen"
  /\ rlProc = "none"
  /\ rlEvent = FALSE
  /\ print_lock = IF rlKind = "stty" THEN "caller" ELSE "free"
  /\ rlReader = [t \in Readers |-> "unstarted"]
  /\ rlWatcher = "unstarted"
  /\ rlTimedOutOn = "none"
  /\ rlKilledOn = "none"

\* lines 1726-1741: Popen, the two reader threads and the watcher are
\* started
RLPopen ==
  /\ rlPc = "popen"
  /\ rlProc' = "running"
  /\ rlReader' = [t \in Readers |-> "reading"]
  /\ rlWatcher' = "waiting"
  /\ rlPc' = "wait"
  /\ UNCHANGED << notRL, rlKind, rlSttyWrites, rlLines, rlEvent, print_lock,
                  rlTimedOutOn, rlKilledOn >>

\* the command ends by itself
RLProcExit ==
  /\ rlProc = "running"
  /\ rlProc' = "exited"
  /\ UNCHANGED << notRL, rlKind, rlSttyWrites, rlLines, rlPc, rlEvent,
                  print_lock, rlReader, rlWatcher, rlTimedOutOn, rlKilledOn >>

\* line 1743: p.wait() returns once the child has ended
RLWait ==
  /\ rlPc = "wait"
  /\ rlProc = "exited"
  /\ rlProc' = "reaped"
  /\ rlPc' = "set"
  /\ UNCHANGED << notRL, rlKind, rlSttyWrites, rlLines, rlEvent, print_lock,
                  rlReader, rlWatcher, rlTimedOutOn, rlKilledOn >>

\* line 1744: event.set()
RLSet ==
  /\ rlPc = "set"
  /\ rlEvent' = TRUE
  /\ rlPc' = "join_tout"
  /\ UNCHANGED << notRL, rlKind, rlSttyWrites, rlLines, rlProc, print_lock,
                  rlReader, rlWatcher, rlTimedOutOn, rlKilledOn >>

\* lines 1745-1746: t.join() of the two readers, stdout first
RLJoin ==
  \/ /\ rlPc = "join_tout"
     /\ rlReader["tout"] = "closed"
     /\ rlPc' = "join_terr"
     /\ UNCHANGED << notRL, rlKind, rlSttyWrites, rlLines, rlProc, rlEvent,
                     print_lock, rlReader, rlWatcher, rlTimedOutOn,
                     rlKilledOn >>
  \/ /\ rlPc = "join_terr"
     /\ rlReader["terr"] = "closed"
     /\ rlPc' = "returned"
     /\ UNCHANGED << notRL, rlKind, rlSttyWrites, rlLines, rlProc, rlEvent,
                     print_lock, rlReader, rlWatcher, rlTimedOutOn,
                     rlKilledOn >>

\* lines 1688-1689 in a thread of the call: the thread holds print_lock and
\* runs 'stty sane'; when that command writes a line, its reader thread
\* calls safe_print and waits for the lock the thread holds
NestedSttyBlocks(writes) == writes

\* read_output, lines 1695-1699: a non-blank line is read and handed to
\* safe_print
RLRead(t) ==
  /\ rlReader[t] = "reading"
  /\ rlLines[t] > 0
  /\ rlLines' = [rlLines EXCEPT ![t] = @ - 1]
  /\ rlReader' = [rlReader EXCEPT ![t] = "acquiring"]
  /\ UNCHANGED << notRL, rlKind, rlSttyWrites, rlPc, rlProc, rlEvent,
                  print_lock, rlWatcher, rlTimedOutOn, rlKilledOn >>

\* safe_print, line 1688: the reader acquires print_lock
RLReaderAcquire(t) ==
  /\ rlReader[t] = "acquiring"
  /\ print_lock = "free"
  /\ print_lock' = t
  /\ rlReader' = [rlReader EXCEPT ![t] = "printing"]
  /\ UNCHANGED << notRL, rlKind, rlSttyWrites, rlLines, rlPc, rlProc,
                  rlEvent, rlWatcher, rlTimedOutOn, rlKilledOn >>

\* safe_print, lines 1689-1692, in the reader: it returns and releases the
\* lock unless its 'stty sane' blocks it
RLReaderPrinted(t) ==
  /\ rlReader[t] = "printing"
  /\ IF NestedSttyBlocks(rlSttyWrites)
     THEN /\ rlReader' = [rlReader EXCEPT ![t] = "stuck"]
          /\ UNCHANGED print_lock
     ELSE /\ rlReader' = [rlReader EXCEPT ![t] = "reading"]
          /\ print_lock' = "free"
  /\ UNCHANGED << notRL, rlKind, rlSttyWrites, rlLines, rlPc, rlProc,
                  rlEvent, rlWatcher, rlTimedOutOn, rlKilledOn >>

\* read_output, lines 1695 and 1700: readline returns '' once the child has
\* ended and every line was read; the thread ends
RLReaderEof(t) ==
  /\ rlReader[t] = "reading"
  /\ rlLines[t] = 0
  /\ rlProc \in {"exited", "reaped"}
  /\ rlReader' = [rlReader EXCEPT ![t] = "closed"]
  /\ UNCHANGED << notRL, rlKind, rlSttyWrites, rlLines, rlPc, rlProc,
                  rlEvent, print_lock, rlWatcher, rlTimedOutOn, rlKilledOn >>

\* kill_on_timeout, line 1704: event.wait(timeout) returns True, the event
\* was set
RLWatcherWake ==
  /\ rlWatcher = "waiting"
  /\ rlEvent
  /\ rlWatcher' = "done"
  /\ UNCHANGED << notRL, rlKind, rlSttyWrites, rlLines, rlPc, rlProc,
                  rlEvent, print_lock, rlReader, rlTimedOutOn, rlKilledOn >>

\* kill_on_timeout, lines 1704-1705: the timeout elapses before the event
\* is set; the watcher goes on to safe_print
RLWatcherTimeout ==
  /\ rlWatcher = "waiting"
  /\ ~rlEvent
  /\ rlWatcher' = "acquiring"
  /\ rlTimedOutOn' = rlProc
  /\ UNCHANGED << notRL, rlKind, rlSttyWrites, rlLines, rlPc, rlProc,
                  rlEvent, print_lock, rlReader, rlKilledOn >>

\* safe_print, line 1688, in the watcher
RLWatcherAcquire ==
  /\ rlWatcher = "acquiring"
  /\ print_lock = "free"
  /\ print_lock' = "watcher"
  /\ rlWatcher' = "printing"
  /\ UNCHANGED << notRL, rlKind, rlSttyWrites, rlLines, rlPc, rlProc,
                  rlEvent, rlReader, rlTimedOutOn, rlKilledOn >>

\* safe_print, lines 1689-1692, in the watcher
RLWatcherPrinted ==
  /\ rlWatcher = "printing"
  /\ IF NestedSttyBlocks(rlSttyWrites)
     THEN /\ rlWatcher' = "stuck"
          /\ UNCHANGED print_lock
     ELSE /\ rlWatcher' = "kill"
          /\ print_lock' = "free"
  /\ UNCHANGED << notRL, rlKind, rlSttyWrites, rlLines, rlPc, rlProc,
                  rlEvent, rlReader, rlTimedOutOn, rlKilledOn >>

\* kill_on_timeout, line 1706: proc.kill(); a running child ends, an ended
\* one is signalled all the same (os.kill on its pid)
RLWatcherKill ==
  /\ rlWatcher = "kill"
  /\ rlKilledOn' = rlProc
  /\ rlProc' = IF rlProc = "running" THEN "exited" ELSE rlProc
  /\ rlWatcher' = "done"
  /\ UNCHANGED << notRL, rlKind, rlSttyWrites, rlLines, rlPc, rlEvent,
                  print_lock, rlReader, rlTimedOutOn >>

NextRL ==
  \/ RLPopen
  \/ RLProcExit
  \/ RLWait
  \/ RLSet
  \/ RLJoin
  \/ \E t \in Readers : RLRead(t)
  \/ \E t \in Readers : RLReaderAcquire(t)
  \/ \E t \in Readers : RLReaderPrinted(t)
  \/ \E t \in Readers : RLReaderEof(t)
  \/ RLWatcherWake
  \/ RLWatcherTimeout
  \/ RLWatcherAcquire
  \/ RLWatcherPrinted
  \/ RLWatcherKill

(***************************************************************************)
(* OpenStack: deploy_to_node after 'puppet apply', lines 753-775.          *)
(*                                                                         *)
(* A text is a sequence of tokens: the text of a non-blank line, or the    *)
(* line break "\n".  A line is a text without line break: << >> for a      *)
(* blank line, one token otherwise.                                        *)
(***************************************************************************)
Markers == {"Device", "does not exist.", "Unable to add resolve nil for fact",
            "ls: cannot access /dev/s", "Puppet (err):"}

\* the lines 'puppet apply' may write to stderr
StderrLines ==
  { << >>,
    << "Device eth9 does not exist." >>,
    << "Device or resource busy" >>,
    << "Unable to add resolve nil for fact" >>,
    << "ls: cannot access /dev/s" >>,
    << "Could not apply catalog" >> }

\* the lines grep 'Puppet (err):' may find in the log
LogLines ==
  { << "Puppet (err): Could not apply catalog" >>,
    << "Puppet (err): Device eth9 does not exist." >> }

\* the markers a line contains (the operator "in" of lines 763-768)
Marks(line) ==
  CASE line = << "Device eth9 does not exist." >> ->
         {"Device", "does not exist."}
    [] line = << "Device or resource busy" >> -> {"Device"}
    [] line = << "Unable to add resolve nil for fact" >> ->
         {"Unable to add resolve nil for fact"}
    [] line = << "ls: cannot access /dev/s" >> -> {"ls: cannot access /dev/s"}
    [] line = << "Puppet (err): Could not apply catalog" >> ->
         {"Puppet (err):"}
    [] line = << "Puppet (err): Device eth9 does not exist." >> ->
         {"Puppet (err):", "Device", "does not exist."}
    [] OTHER -> {}

\* what a command writes when it writes the given lines: every line ends
\* with a line break
RECURSIVE TextOf(_)
TextOf(lines) ==
  IF lines = << >> THEN << >>
  ELSE Head(lines) \o << "\n" >> \o TextOf(Tail(lines))

\* str.splitlines(), line 761
RECURSIVE SplitLines(_)
SplitLines(text) ==
  IF text = << >> THEN << >>
  ELSE IF \E i \in 1..Len(text) : text[i] = "\n"
       THEN LET i == CHOOSE k \in 1..Len(text) :
                       /\ text[k] = "\n"
                       /\ \A j \in 1..(k - 1) : text[j] # "\n"
            IN  << SubSeq(text, 1, i - 1) >>
                  \o SplitLines(SubSeq(text, i + 1, Len(text)))
       ELSE << text >>

\* '\n'.join(actual_errors), line 770
RECURSIVE JoinLines(_)
JoinLines(lines) ==
  IF lines = << >> THEN << >>
  ELSE IF Len(lines) = 1 THEN Head(lines)
       ELSE Head(lines) \o << "\n" >> \o JoinLines(Tail(lines))

\* lines 763-768: the three kinds of line that are skipped
Benign(line) ==
  \/ {"Device", "does not exist."} \subseteq Marks(line)
  \/ "Unable to add resolve nil for fact" \in Marks(line)
  \/ "ls: cannot access /dev/s" \in Marks(line)

\* lines 760-769: actual_errors
RECURSIVE ActualErrors(_)
ActualErrors(lines) ==
  IF lines = << >> THEN << >>
  ELSE (IF Benign(Head(lines)) THEN << >> ELSE << Head(lines) >>)
         \o ActualErrors(Tail(lines))

StartPP ==
  /\ ppPc = "apply"
  /\ ppErrors = << >>

\* lines 753-756: 'puppet apply' returns its stderr in errors; with nothing
\* there ("if not errors") the log is looked at
PuppetApply ==
  /\ ppPc = "apply"
  /\ ppErrors' = ppStderr
  /\ ppPc' = IF ppStderr = << >> THEN "grep" ELSE "filter"
  /\ UNCHANGED << notPP, ppStderr, ppLog >>

\* lines 758-759: errors becomes the output of grep 'Puppet (err):'
PuppetGrepLog ==
  /\ ppPc = "grep"
  /\ ppErrors' = ppLog
  /\ ppPc' = "filter"
  /\ UNCHANGED << notPP, ppStderr, ppLog >>

\* lines 760-773: the benign lines are dropped, the rest is joined, and
\* deploy_to_node raises when the joined text is not empty
PuppetFilter ==
  /\ ppPc = "filter"
  /\ ppErrors' = JoinLines(ActualErrors(SplitLines(ppErrors)))
  /\ ppPc' = IF ppErrors' # << >> THEN "raised" ELSE "continued"
  /\ UNCHANGED << notPP, ppStderr, ppLog >>

NextPP ==
  \/ PuppetApply
  \/ PuppetGrepLog
  \/ PuppetFilter

(***************************************************************************)
(* bcf3: Node, bcf3/lib/node.py.  The deploy modes are const.T5, const.T6  *)
(* and any other value of the configuration; the operating system counts   *)
(* by the package set it belongs to (const.RPM_OS_SET, const.DEB_OS_SET or *)
(* neither).                                                               *)
(***************************************************************************)
DeployModes == {"T5", "T6", "other"}

OsKinds == {"rpm", "deb", "other"}

StartND ==
  /\ ndPc = "config"
  /\ ivs_pkg = "None"
  /\ ndReady = FALSE

\* Node.__init__, lines 41-49: ivs_pkg is None unless the operating system
\* is in one of the two sets; then it is the entry of the package map, which
\* may be None itself
NodeInit ==
  /\ ndPc = "config"
  /\ ivs_pkg' = IF ndOsKind = "other" THEN "None" ELSE ndPkgMap[ndOsKind]
  /\ ndPc' = "constructed"
  /\ UNCHANGED << notND, ndDeployMode, ndOsKind, ndPkgMap, ndReady >>

\* lines 72-76: the value is_ready_to_deploy returns
IsReadyToDeploy(mode, pkg) ==
  IF mode = "T6" /\ pkg # "None" THEN TRUE
  ELSE IF ~(mode = "T5") THEN TRUE
  ELSE FALSE

\* Node.is_ready_to_deploy, lines 71-76
NodeIsReady ==
  /\ ndPc = "constructed"
  /\ ndReady' = IsReadyToDeploy(ndDeployMode, ivs_pkg)
  /\ ndPc' = "answered"
  /\ UNCHANGED << notND, ndDeployMode, ndOsKind, ndPkgMap, ivs_pkg >>

NextND ==
  \/ NodeInit
  \/ NodeIsReady

(***************************************************************************)
(* The specifications.  Each starts the other components in a fixed state  *)
(* and never moves them.                                                   *)
(***************************************************************************)
IdleCS ==
  /\ config = [compute_os |-> "ubuntu", management_os |-> "ubuntu",
               nodes |-> << >>]
  /\ hostPkgs = Packages
  /\ StartCS

IdleTC ==
  /\ tcShellArg = FALSE
  /\ tcRetriesArg = 0
  /\ StartTC

IdleOS ==
  /\ envNodes = 1
  /\ StartOS

IdleMain ==
  /\ mnMode = "standalone"
  /\ mnArgs = [a \in ArgNames |-> "ok"]
  /\ mnN = 1
  /\ mnConf = [n \in NodeIds |-> "plain"]
  /\ StartMain

IdleGen ==
  /\ gnNode = [role |-> ROLE_COMPUTE, bridges |-> "none"]
  /\ gnComputeOs = "ubuntu"
  /\ gnMgmtOs = "ubuntu"
  /\ gnMaster = "self"
  /\ gnTmp = {}
  /\ gnCalls = << >>

IdleRL ==
  /\ rlKind = "script"
  /\ rlSttyWrites = FALSE
  /\ rlLines = [t \in Readers |-> 0]
  /\ StartRL

IdlePP ==
  /\ ppStderr = << >>
  /\ ppLog = << >>
  /\ StartPP

IdleND ==
  /\ ndDeployMode = "other"
  /\ ndOsKind = "other"
  /\ ndPkgMap = [k \in {"rpm", "deb"} |-> "None"]
  /\ StartND

InitCS ==
  /\ config \in Configs
  /\ hostPkgs \in PkgSets
  /\ StartCS
  /\ IdleTC
  /\ IdleOS
  /\ IdleMain
  /\ IdleGen
  /\ IdleRL
  /\ IdlePP
  /\ IdleND

InitTC ==
  /\ tcShellArg \in BOOLEAN
  /\ tcRetriesArg \in 0..MaxRetries
  /\ StartTC
  /\ IdleCS
  /\ IdleOS
  /\ IdleMain
  /\ IdleGen
  /\ IdleRL
  /\ IdlePP
  /\ IdleND

InitOS ==
  /\ envNodes \in 1..MaxNodes
  /\ StartOS
  /\ IdleCS
  /\ IdleTC
  /\ IdleMain
  /\ IdleGen
  /\ IdleRL
  /\ IdlePP
  /\ IdleND

\* the inputs of a run of the main block: at most MaxFaults of the values
\* are bad; stand-alone mode has the one node localhost (line 425); the
\* settings of the nodes beyond mnN are not read
InitMain ==
  /\ mnMode \in Modes
  /\ mnArgs \in [ArgNames -> {"ok", "bad"}]
  /\ mnN \in 1..MaxNodes
  /\ mnConf \in [NodeIds -> NodeConfs]
  /\ mnMode = "standalone" => mnN = 1
  /\ \A n \in NodeIds : n > mnN => mnConf[n] = "plain"
  /\ Cardinality(BadArgs(mnArgs)) + Cardinality(BadNodes(mnConf, mnN))
       <= MaxFaults
  /\ StartMain
  /\ IdleCS
  /\ IdleTC
  /\ IdleOS
  /\ IdleGen
  /\ IdleRL
  /\ IdlePP
  /\ IdleND

\* the node record (a management node has no bridges, lines 1517-1519), the
\* globals of the first run, and whether an earlier run left the base bond
\* file of the host name in /tmp
InitGen ==
  /\ gnNode \in GenNodes
  /\ gnNode.role = ROLE_MGMT => gnNode.bridges = "none"
  /\ gnComputeOs \in ComputeOSes
  /\ gnMgmtOs \in MgmtOSes
  /\ gnMaster \in {"self", "other"}
  /\ gnTmp \in SUBSET {"ifcfg-bond"}
  /\ gnCalls = << >>
  /\ IdleCS
  /\ IdleTC
  /\ IdleOS
  /\ IdleMain
  /\ IdleRL
  /\ IdlePP
  /\ IdleND

\* the call: which one it is, what its command writes, and whether 'stty
\* sane' writes anything in the environment of the run (it writes an error
\* line when standard input is not a terminal); the command of a "stty"
\* call is 'stty sane' itself
InitRL ==
  /\ rlKind \in {"stty", "script"}
  /\ rlSttyWrites \in BOOLEAN
  /\ rlLines \in [Readers -> 0..MaxLines]
  /\ rlKind = "stty" =>
       (rlSttyWrites <=> \E t \in Readers : rlLines[t] > 0)
  /\ StartRL
  /\ IdleCS
  /\ IdleTC
  /\ IdleOS
  /\ IdleMain
  /\ IdleGen
  /\ IdlePP
  /\ IdleND

\* sequences of at most n elements of S
SeqsUpTo(S, n) == UNION {[1..k -> S] : k \in 0..n}

\* what 'puppet apply' wrote to stderr and what its log holds
InitPP ==
  /\ ppStderr \in {TextOf(ls) : ls \in SeqsUpTo(StderrLines, MaxErrLines)}
  /\ ppLog \in {TextOf(ls) : ls \in SeqsUpTo(LogLines, MaxErrLines)}
  /\ StartPP
  /\ IdleCS
  /\ IdleTC
  /\ IdleOS
  /\ IdleMain
  /\ IdleGen
  /\ IdleRL
  /\ IdleND

\* the configuration of the node and the package map of the environment
InitND ==
  /\ ndDeployMode \in DeployModes
  /\ ndOsKind \in OsKinds
  /\ ndPkgMap \in [{"rpm", "deb"} -> {"None", "ivs"}]
  /\ StartND
  /\ IdleCS
  /\ IdleTC
  /\ IdleOS
  /\ IdleMain
  /\ IdleGen
  /\ IdleRL
  /\ IdlePP

SpecCS == InitCS /\ [][NextCS]_vars

SpecTC == InitTC /\ [][NextTC]_vars

SpecOS == InitOS /\ [][NextOS]_vars

SpecMain == InitMain /\ [][NextMain]_vars

SpecGen == InitGen /\ [][NextGen]_vars

SpecRL == InitRL /\ [][NextRL]_vars

SpecPP == InitPP /\ [][NextPP]_vars

SpecND == InitND /\ [][NextND]_vars

(***************************************************************************)
(* Properties.  Those of the CloudStack orchestrator are checked under     *)
(* SpecCS.                                                                 *)
(***************************************************************************)
\* the phases in the order of the documented sequence
PhaseSeq == << "setup_management" >> \o QueueOrder \o << "reboot_management" >>

\* the phases deploy_to_all runs for the configured topology
Applies(p) ==
  IF p \in {"setup_management", "reboot_management"}
  THEN \E i \in 1..Len(config.nodes) : config.nodes[i].role = ROLE_MGMT
  ELSE p = "node_q" \/ config.compute_os = "xenserver"

\* the nodes a phase has an action for
Items(p) ==
  IF p \in {"setup_management", "reboot_management"}
  THEN {MANAGEMENT_NODE} \ {0}
  ELSE SeqRange(puts[p])

Begun(p) == \E n \in NodeIds : began[p][n] > 0

Completed(p) == \A n \in Items(p) : ended[p][n] >= 1

LoopFinished == pc \notin {"prepare", "loop", "crashed"}

\* i and j are consecutive among the phases that apply
Consecutive(seq, i, j) ==
  /\ i < j
  /\ Applies(seq[i]) /\ Applies(seq[j])
  /\ \A k \in (i + 1)..(j - 1) : ~Applies(seq[k])

Barrier(seq) ==
  \A i, j \in 1..Len(seq) :
    (Consecutive(seq, i, j) /\ Begun(seq[j])) => Completed(seq[i])

\* the join of queue q has returned
JoinReturned(q) ==
  \/ pc \in {"spawn", "join"} /\ step > StepOf(q)
  \/ pc \in {"final", "join_reboot", "done"} /\ step >= StepOf(q)

\* number of entries with the given role
RoleCount(r) ==
  Cardinality({i \in 1..Len(config.nodes) : config.nodes[i].role = r})

\* number of actions of phase p begun
Actions(p) == SumUpTo(began[p], MaxNodes)

\* C1 as stated: for every two consecutive applicable phases of the sequence
\* setup-management, setup-base-nodes, ..., verify-bond, reboot-management,
\* no action of the later phase has begun unless every action of the earlier
\* phase has completed (setup-management before setup-base-nodes included).
C1_BarrierAllPhases == LoopFinished => Barrier(PhaseSeq)

\* C1 amended: the barrier holds for every two consecutive applicable phases
\* of setup-base-nodes, join-cluster, assign-ip, change-mgmt-interface,
\* reboot-primary, reboot-secondary, verify-bond, reboot-management; the
\* setup-management action runs concurrently with the queue phases and is
\* only known to have completed before reboot-management begins.
C1_BarrierQueuePhases ==
  LoopFinished =>
    /\ Barrier(Tail(PhaseSeq))
    /\ Begun("reboot_management") => Completed("setup_management")

\* C1 witness: a xenserver run with two pool masters and a management node
\* reached the management reboot, so the barriers between the phases that
\* had actions were crossed
C1_Witness ==
  /\ config.compute_os = "xenserver"
  /\ Len(puts["xen_master_node_q"]) = 2
  /\ Begun("reboot_management")
  /\ \A p \in SeqRange(PhaseSeq) : Items(p) # {} => Begun(p)

\* C2 as stated (checked under SpecTC): run never uses more than r+1
\* attempts; it returns instead of raising; once it has found the thread
\* alive at the timeout and called terminate, the process of the current
\* attempt, if any was spawned, is the one that was signalled; and when every
\* attempt timed out the error returned is the timed-out one.
C2_TimeoutTerminatesAndReturns ==
  /\ tcAttempt <= tcRetriesArg + 1
  /\ tcPc # "raised"
  /\ (tcPc = "join" /\ tcProc[tcAttempt] # "none")
       => tcAttempt \in tcSignalled
  /\ (tcPc = "returned" /\ tcTimeouts > tcRetriesArg)
       => selfErrors = "timed_out"

\* C3 (checked under SpecOS): when deploy_to_all has finished, the thread of
\* every node of env.nodes has run to its end, a node whose deploy_to_node
\* raised has exactly one entry in errors, and any other node has none.
C3_ErrorsExactlyRaised ==
  osPc = "done" =>
    \A n \in 1..envNodes :
      /\ osThread[n] = "finished"
      /\ Cardinality({i \in 1..Len(errors) : errors[i][1] = n})
           = (IF n \in osRaised THEN 1 ELSE 0)

\* C3 witness: a finished run in which two nodes raised and another did not
C3_Witness ==
  /\ osPc = "done"
  /\ Cardinality(osRaised) = 2
  /\ envNodes = 3

\* the deploy threads that are in the step that changes a shared list
Mutators ==
  {n \in NodeIds :
     \/ osThread[n] = "except" /\ osThread'[n] = "finished"
     \/ osThread[n] = "running" /\ osThread'[n] = "collected"}

\* C11 as stated (checked under SpecOS): every step that changes errors or
\* node_information is taken by a deploy thread that holds a lock.
C11_MutationsUnderGuard ==
  [][(errors' # errors \/ node_information' # node_information)
       => \A n \in Mutators : LocksHeld(n) # {}]_vars

\* C11 amended: no lock is held, yet every step that changes errors or
\* node_information is the append of one thread and adds exactly one entry
\* behind the entries already there, so that no appended entry is lost.
C11_AppendsKeepEntries ==
  [][/\ errors' # errors =>
          /\ Cardinality(Mutators) = 1
          /\ Len(errors') = Len(errors) + 1
          /\ SubSeq(errors', 1, Len(errors)) = errors
     /\ node_information' # node_information =>
          /\ Cardinality(Mutators) = 1
          /\ Len(node_information') = Len(node_information) + 1
          /\ SubSeq(node_information', 1, Len(node_information))
               = node_information]_vars

\* C11 witness: threads that ran at the same time have appended two
\* connection strings and an error
C11_Witness ==
  /\ Len(node_information) = 2
  /\ Len(errors) = 1
  /\ osPc # "done"

\* C12 as stated (checked under SpecMain): when one of --controllers,
\* --controller-auth, --bond-mode or the cluster id is bad, no command is
\* ever executed on a node and the run never reaches the deployment, in
\* every mode.
C12_BadValueAbortsUntouched ==
  BadArgs(mnArgs) # {} =>
    /\ mnTouched = {}
    /\ mnPc \notin {"deploy", "done"}

\* C13 as stated (checked under SpecMain): in stand-alone mode and in
\* config-file mode, when a node has bond interfaces but no bridge mapping
\* or no physical interface bridge, no command is ever executed on a node.
C13_BondWithoutBridgeUntouched ==
  (mnMode \in {"standalone", "config"} /\ BadNodes(mnConf, mnN) # {})
    => mnTouched = {}

\* C14 (checked under SpecOS): a deploy thread is started only for a node
\* that has none yet; nothing is printed before the thread of every node of
\* env.nodes has finished; and when deploy_to_all has returned, every node
\* of env.nodes has had its thread and the summary ends with "Deployment
\* Complete!" exactly when the error list is empty.
C14_OneThreadPerNodeThenSummary ==
  /\ [][\A n \in NodeIds :
          (osThread'[n] = "running" /\ osThread[n] # "running")
            => osThread[n] = "none"]_vars
  /\ [](osPrinted # << >> =>
          \A n \in NodeIds :
            osThread[n] = IF n <= envNodes THEN "finished" ELSE "none")
  /\ [](osPc = "done" =>
          /\ osPrinted # << >>
          /\ ("Deployment Complete!" \in SeqRange(osPrinted))
               <=> (errors = << >>))

\* C14 witness: deploy_to_all has returned from a run over three nodes in
\* which a deployment raised and another did not
C14_Witness ==
  /\ osPc = "done"
  /\ envNodes = 3
  /\ Len(errors) = 1
  /\ "Deployment Complete!" \notin SeqRange(osPrinted)

Spawned == {a \in Attempts : tcProc[a] # "none"}

\* C16 (checked under SpecTC): run makes at most one attempt more than it
\* saw timeouts; so a run that saw no timeout has made one attempt, which
\* spawned the command once, or not at all when the spawn failed, whatever
\* the command left in self.errors.
C16_RetryOnlyAfterTimeout ==
  /\ tcAttempt <= tcTimeouts + 1
  /\ Cardinality(Spawned) <= tcAttempt
  /\ (tcPc = "returned" /\ tcTimeouts = 0) =>
       /\ tcAttempt = 1
       /\ selfRetries = 0
       /\ Cardinality(Spawned) = IF selfErrors = "open_error" THEN 0 ELSE 1

\* C16 witness: a run that was given retries has returned without a timeout
\* from a command that wrote to stderr
C16_Witness ==
  /\ tcPc = "returned"
  /\ tcTimeouts = 0
  /\ tcRetriesArg >= 1
  /\ selfErrors = "stderr"

\* C17: the reboot-management action is performed at most once, and not at
\* all when the configuration has no management node; a run that reached its
\* end with a management node configured has performed it once; and when it
\* has begun, the setup-management action has returned and every queue phase
\* of the topology has been joined with all its actions returned.
C17_RebootManagementOnceAtEnd ==
  /\ Actions("reboot_management") <= 1
  /\ RoleCount(ROLE_MGMT) = 0 => Actions("reboot_management") = 0
  /\ (pc = "done" /\ RoleCount(ROLE_MGMT) > 0) =>
       /\ Actions("reboot_management") = 1
       /\ Completed("reboot_management")
  /\ Begun("reboot_management") =>
       /\ Completed("setup_management")
       /\ \A q \in Queues :
            Applies(q) => JoinReturned(q) /\ Completed(q)

\* C17 witness: a xenserver run with a management node and a pool master
\* has reached its end
C17_Witness ==
  /\ pc = "done"
  /\ config.compute_os = "xenserver"
  /\ MANAGEMENT_NODE # 0
  /\ puts["xen_master_node_q"] # << >>

\* C18: in a xenserver run, for every step k of the seven, workers of step
\* k+1 exist only when the join of the queue of step k has returned, and an
\* action of step k+1 has begun only when every action of step k has returned
\* and none is running (step 5 is reboot-primary, step 6 reboot-secondary).
C18_StepsInOrder ==
  config.compute_os = "xenserver" =>
    \A k \in 1..(Len(QueueOrder) - 1) :
      LET q == QueueOrder[k]
          r == QueueOrder[k + 1]
      IN /\ started[r] > 0 => JoinReturned(q) /\ unfinished[q] = 0
         /\ Begun(r) =>
              /\ Completed(q)
              /\ \A n \in NodeIds : running[q][n] = 0

\* C18 witness: in a run with two pools the reboot of a master has begun
\* after the change-mgmt-interface actions of both masters
C18_Witness ==
  /\ config.compute_os = "xenserver"
  /\ Len(puts["xen_master_node_reboot_q"]) = 2
  /\ Actions("node_mgmtintf_q") = 2
  /\ Begun("xen_master_node_reboot_q")

\* C19: a node is never being worked on by two workers of a queue, the
\* action of a queue has begun for a node at most as often as the node was
\* put on the queue, and once the join of the queue has returned it has
\* begun and returned exactly once for every node put on it.
C19_EachNodeOnce ==
  \A q \in Queues : \A n \in NodeIds :
    /\ running[q][n] <= 1
    /\ began[q][n] <= Occurrences(puts[q], n)
    /\ JoinReturned(q) =>
         /\ began[q][n] = Occurrences(puts[q], n)
         /\ ended[q][n] = began[q][n]

\* C19 witness: two workers of node_q are at work on different nodes
C19_Witness ==
  Cardinality({n \in NodeIds : running["node_q"][n] = 1}) = 2

\* the entries of config['nodes'] the node loop has been through
Processed == {i \in 1..Len(config.nodes) : i < loopIdx}

\* entry i is the first compute entry of its pool in config order
FirstOfPool(i) ==
  \A j \in 1..(i - 1) :
    ~(config.nodes[j].role = ROLE_COMPUTE
      /\ config.nodes[j].pool = config.nodes[i].pool)

MasterQueues == {"xen_master_node_q", "xen_master_node_reboot_q"}

SlaveQueues == {"xen_slave_node_q", "xen_slave_node_reboot_q"}

\* C20: in a xenserver run, of the entries the node loop has been through,
\* the first compute entry of a pool is the master of the pool and is on the
\* assign-ip and reboot-primary queues and on no slave queue; any other
\* compute entry is on the join-cluster and reboot-secondary queues, on no
\* master queue and is no master; a management entry is on no queue.
C20_MasterAndSlaveQueues ==
  config.compute_os = "xenserver" =>
    \A i \in Processed :
      LET nc == config.nodes[i]
          On(q) == i \in SeqRange(puts[q])
      IN IF nc.role = ROLE_MGMT
         THEN \A q \in Queues : ~On(q)
         ELSE IF FirstOfPool(i)
              THEN /\ MASTER_NODES[nc.pool] = i
                   /\ \A q \in MasterQueues : On(q)
                   /\ \A q \in SlaveQueues : ~On(q)
              ELSE /\ MASTER_NODES[nc.pool] # i
                   /\ \A q \in SlaveQueues : On(q)
                   /\ \A q \in MasterQueues : ~On(q)

\* C20 witness: the node loop has been through a management entry, the
\* master of a pool and a slave of that pool
C20_Witness ==
  /\ config.compute_os = "xenserver"
  /\ Cardinality(Processed) = 3
  /\ RoleCount(ROLE_MGMT) = 1
  /\ puts["xen_master_node_q"] # << >>
  /\ puts["xen_slave_node_q"] # << >>

\* C4 as stated: a failing or raising node action leaves the phase able to
\* finish (once the queue is empty and no command is in flight the join can
\* return) and the failure has been surfaced when the run is done.
C4_FailureIsolatedAndSurfaced ==
  /\ \A q \in Queues :
       (queue[q] = << >> /\ SumUpTo(running[q], MaxNodes) = 0)
         => unfinished[q] = 0
  /\ (pc = "done" /\ faults > 0) => surfaced # {}

ThreeNodeScenario ==
  /\ Len(config.nodes) = 3
  /\ RoleCount(ROLE_MGMT) = 1
  /\ RoleCount(ROLE_COMPUTE) = 2
  /\ config.compute_os \in {"ubuntu", "centos"}
  /\ hostPkgs = Packages
  /\ faults = 0

\* C6: with 1 management and 2 compute nodes, a non-pooled compute OS and
\* every command succeeding, a finished run has performed exactly one
\* setup-management action and one setup-base action per compute node, no
\* action of a pool-specific phase, and has reported no error.
C6_ThreeNodeRun ==
  (pc = "done" /\ ThreeNodeScenario) =>
    /\ Actions("setup_management") = 1
    /\ Actions("node_q") = 2
    /\ \A i \in 1..Len(config.nodes) :
         began["node_q"][i] = (IF config.nodes[i].role = ROLE_COMPUTE THEN 1 ELSE 0)
    /\ \A q \in Queues \ {"node_q"} : Actions(q) = 0
    /\ surfaced = {}

\* C6 witness: such a run reaches its end
C6_Witness == pc = "done" /\ ThreeNodeScenario

\* C7 as stated: when a package the configuration needs is missing in /tmp,
\* deploy_to_all has returned after the guards and no action was dispatched.
C7_MissingPackageAborts ==
  (pc \notin {"prepare", "loop", "crashed", "preflight"}
   /\ ~(RequiredPkgs(config) \subseteq tmpPkgs)) =>
     /\ pc = "aborted"
     /\ \A p \in Phases : ~Begun(p)

\* C8: no node is put more than once on any of the seven queues.
C8_PutAtMostOnce ==
  \A q \in Queues : \A n \in NodeIds : Occurrences(puts[q], n) <= 1

\* C8 witness: the node loop has finished and queued two nodes
C8_Witness == pc = "preflight" /\ Len(puts["node_q"]) >= 2

\* C9: when the compute OS is not xenserver, no worker of a queue after
\* node_q is ever started and no action of those phases begins.
C9_PoolPhasesSkipped ==
  config.compute_os # "xenserver" =>
    \A q \in Queues \ {"node_q"} : started[q] = 0 /\ ~Begun(q)

\* C9 witness: a finished non-pooled run whose change-mgmt-interface and
\* verify-bond queues still hold the compute nodes
C9_Witness ==
  /\ pc = "done"
  /\ config.compute_os # "xenserver"
  /\ queue["node_mgmtintf_q"] # << >>
  /\ queue["xen_check_bond_q"] # << >>

\* C10: once the join of a queue has returned, the queue is empty and the
\* command of every node taken from it has returned.
C10_JoinAfterCommands ==
  \A q \in Queues :
    JoinReturned(q) =>
      /\ queue[q] = << >>
      /\ \A n \in NodeIds : running[q][n] = 0
      /\ \A n \in SeqRange(puts[q]) : ended[q][n] = began[q][n]

\* C10 witness: the join of a queue that held two nodes has returned
C10_Witness ==
  \E q \in Queues : JoinReturned(q) /\ Len(puts[q]) >= 2

\* the deploy threads that were started and have not finished
Alive == {n \in NodeIds : osThread[n] \notin {"none", "finished"}}

\* the deploy threads that were started and whose join has not returned:
\* the deque and the popped thread during the start loop (lines 516-523),
\* the rest of the deque during the final loop (lines 524-525)
Unjoined ==
  CASE osPc \in {"loop", "join_top"} ->
         SeqRange(thread_list) \cup (IF osJoining = 0 THEN {} ELSE {osJoining})
    [] osPc = "join_rest" ->
         {thread_list[i] : i \in osIdx..Len(thread_list)}
    [] OTHER -> {}

\* C26 (checked under SpecOS): at every moment at most MAX_THREADS deploy
\* threads are started and not yet joined, and every thread that has not
\* finished is among them: never more than MAX_THREADS deploy threads run,
\* for every number of nodes and every order in which they finish.
C26_AtMostMaxThreads ==
  /\ Alive \subseteq Unjoined
  /\ Cardinality(Unjoined) <= MAX_THREADS
  /\ Cardinality(Alive) <= MAX_THREADS

\* C26 witness: more nodes than MAX_THREADS, the start loop waits for the
\* oldest thread while MAX_THREADS threads are running
C26_Witness ==
  /\ envNodes > MAX_THREADS
  /\ osPc = "join_top"
  /\ Cardinality(Alive) = MAX_THREADS

\* C24 as stated: whenever run has found its thread alive at the timeout
\* and is about to call self.process.terminate() (line 90), self.process is
\* set and is the process the current attempt spawned.
C24_TerminateCurrentProcess ==
  tcPc = "terminate" => (selfProcess # 0 /\ selfProcess = tcAttempt)

\* C25 as stated: every attempt of a run, the re-attempts after a timeout
\* included, runs with the shell mode the original call was given.
C25_RetryKeepsShell ==
  tcShell = tcShellArg

\* C29 as stated: when deploy_to_all has run to its end, every config entry
\* whose role is management has received the setup-management action once
\* and the management reboot once.
C29_EveryManagementNodeOnce ==
  pc = "done" =>
    \A i \in 1..Len(config.nodes) :
      config.nodes[i].role = ROLE_MGMT =>
        /\ began["setup_management"][i] = 1
        /\ began["reboot_management"][i] = 1

\* the generated script the action of a phase runs, or runs on the node
\* after the node's local script shipped it; "" for the two reboots, which
\* run no script (lines 2147, 2154, 2162, 2174, 2186, 2198, 2210, 2232)
ScriptOf(p) ==
  CASE p \in {"setup_management", "node_q"} -> "local.sh"
    [] p = "xen_slave_node_q" -> "slave.sh"
    [] p = "xen_master_node_q" -> "bondip.sh"
    [] p = "node_mgmtintf_q" -> "mgmtintf.sh"
    [] p = "xen_slave_node_reboot_q" -> "slave_reboot.sh"
    [] p = "xen_check_bond_q" -> "checkbond.sh"
    [] OTHER -> ""

\* C21 as stated: for every action a worker has dispatched for a node, the
\* script of that action was generated for the node and is in /tmp (the
\* scripts in /tmp do not change once the node loop is over).
C21_ScriptExistsWhenRun ==
  \A p \in Phases, n \in NodeIds :
    (began[p][n] > 0 /\ ScriptOf(p) # "") => << n, ScriptOf(p) >> \in tmpScripts

\* the thread the caller of run_command_on_local is waiting for in a join
JoinedReader ==
  CASE rlPc = "join_tout" -> {"tout"}
    [] rlPc = "join_terr" -> {"terr"}
    [] OTHER -> {}

\* C22 as stated: no state is reached in which a thread that holds
\* print_lock waits for a thread that is blocked acquiring print_lock:
\* neither the caller of safe_print, which joins the readers of its 'stty
\* sane', nor a thread of the call inside its own safe_print.
C22_NoHolderWaitsForBlocked ==
  /\ ~(print_lock = "caller"
         /\ \E t \in JoinedReader : rlReader[t] = "acquiring")
  /\ \A t \in Readers : rlReader[t] # "stuck"
  /\ rlWatcher # "stuck"

\* C23 as stated: the watchdog reports a timeout and kills the child only
\* when the child is still running at the moment the timeout elapses, and
\* calls proc.kill() only on a running child.
C23_KillOnlyWhenRunning ==
  /\ rlTimedOutOn \in {"none", "running"}
  /\ rlKilledOn \in {"none", "running"}

\* C28 as stated: a stand-alone run in which no command failed and no
\* setting was missing ends with every node deployed: no request of the
\* deployer was refused by the environment, the error list is empty and the
\* summary is 'Deployment Complete!'.
C28_StandaloneRunCompletes ==
  (/\ mnMode = "standalone"
   /\ mnPc = "done"
   /\ \A n \in 1..mnN : mnNode[n] # "raised")
    => \A n \in 1..mnN : mnNode[n] = "deployed"

\* the error lines of the puppet step: the lines of stderr, or, with
\* nothing on stderr, the lines grep found in the log
ErrorLines == SplitLines(IF ppStderr # << >> THEN ppStderr ELSE ppLog)

\* C27 as stated: once the puppet step has decided, deploy_to_node has
\* raised if and only if an error line is left after the lines matching the
\* three benign patterns are removed (a blank line is not an error line).
C27_RaisesIffErrorLineRemains ==
  ppPc \in {"raised", "continued"} =>
    (ppPc = "raised" <=>
       \E i \in 1..Len(ErrorLines) :
         ErrorLines[i] # << >> /\ ~Benign(ErrorLines[i]))

\* C30 as stated: is_ready_to_deploy returns True for a node in T6 mode
\* only if ivs_pkg is not None, False for a node in T5 mode, and True for
\* a node in any other mode.
C30_ReadyOnlyWithIvsPackage ==
  ndPc = "answered" =>
    /\ (ndDeployMode = "T6" /\ ndReady) => ivs_pkg # "None"
    /\ ndDeployMode = "T5" => ~ndReady
    /\ ndDeployMode \notin {"T5", "T6"} => ndReady

=============================================================================
